---------------------------- MODULE Spec2Model ----------------------------
(***************************************************************************)
(* A model of biblio-ebook-parser: the FB2 and EPUB parsing pipelines.     *)
(*                                                                         *)
(* Text is modelled at character level: a Go string or []byte is a         *)
(* sequence of one-character strings.  A few characters outside ASCII are  *)
(* written as symbols: CTL (an XML-illegal control character such as       *)
(* U+0001), HIBYTE (a lone byte >= 0x80 that is not valid UTF-8), CYR (the *)
(* rune Windows-1251 gives for that byte) and NBSP (U+00A0).              *)
(* Regular expressions of the source are translated to operators that      *)
(* compute the same leftmost matches.                                      *)
(***************************************************************************)
EXTENDS Integers, Sequences, FiniteSets, TLC

\* ------------------------------------------------------------------------
\* Characters and string primitives
\* ------------------------------------------------------------------------

CTL == "CTL"
HIBYTE == "HIBYTE"
CYR == "CYR"
NBSP == "NBSP"

\* a rune outside ASCII that a Western code page gives for a byte >= 0x80
LATIN == "LATIN"

\* Go regexp \s is [\t\n\f\r ]
IsReSpace(c) == c \in {" ", "\n", "\t", "\r", "\f"}

\* unicode.IsSpace, as used by strings.TrimSpace and strings.Fields
IsSpace(c) == c \in {" ", "\n", "\t", "\r", "\f", NBSP}

UpperCase == <<"A", "B", "C", "D", "E", "F", "G", "H", "I", "J", "K", "L", "M",
               "N", "O", "P", "Q", "R", "S", "T", "U", "V", "W", "X", "Y", "Z">>
LowerCase == <<"a", "b", "c", "d", "e", "f", "g", "h", "i", "j", "k", "l", "m",
               "n", "o", "p", "q", "r", "s", "t", "u", "v", "w", "x", "y", "z">>

IsLetter(c) == \E k \in 1..26 : c = UpperCase[k] \/ c = LowerCase[k]
IsDigit(c) == c \in {"0", "1", "2", "3", "4", "5", "6", "7", "8", "9"}
IsHexDigit(c) == IsDigit(c) \/ c \in {"a", "b", "c", "d", "e", "f", "A", "B", "C", "D", "E", "F"}

\* strings.ToLower on one character; also the folding of (?i) in a pattern
UpperSet == {UpperCase[k] : k \in 1..26}
LowerOf == [c \in UpperSet |-> LowerCase[CHOOSE k \in 1..26 : c = UpperCase[k]]]

ToLowerChar(c) == IF c \in UpperSet THEN LowerOf[c] ELSE c

ToLower(s) == [k \in 1..Len(s) |-> ToLowerChar(s[k])]

MinOf(S) == CHOOSE x \in S : \A y \in S : x <= y

\* s[i:] begins with lit (1-based i); fold = TRUE compares case-insensitively
HasPrefixAt(s, i, lit, fold) ==
    /\ i >= 1
    /\ i + Len(lit) - 1 <= Len(s)
    /\ \A k \in 1..Len(lit) :
          IF fold THEN ToLowerChar(s[i + k - 1]) = ToLowerChar(lit[k])
                  ELSE s[i + k - 1] = lit[k]

\* index of the first c at or after from, 0 if none
IndexOfChar(s, c, from) ==
    LET hits == {j \in from..Len(s) : s[j] = c}
    IN  IF hits = {} THEN 0 ELSE MinOf(hits)

\* index of the first occurrence of lit at or after from, 0 if none
IndexOfLit(s, lit, from, fold) ==
    LET hits == {j \in from..Len(s) : HasPrefixAt(s, j, lit, fold)}
    IN  IF hits = {} THEN 0 ELSE MinOf(hits)

\* s[a..b] as a sequence (empty when b < a)
Slice(s, a, b) == IF b < a THEN <<>> ELSE SubSeq(s, a, b)

RECURSIVE SkipReSpace(_, _)
\* first index at or after i that is not matched by \s*
SkipReSpace(s, i) ==
    IF i <= Len(s) /\ IsReSpace(s[i]) THEN SkipReSpace(s, i + 1) ELSE i

RECURSIVE TrimLeft(_)
TrimLeft(s) == IF s # <<>> /\ IsSpace(Head(s)) THEN TrimLeft(Tail(s)) ELSE s

RECURSIVE TrimRight(_)
TrimRight(s) ==
    IF s # <<>> /\ IsSpace(s[Len(s)]) THEN TrimRight(SubSeq(s, 1, Len(s) - 1)) ELSE s

\* strings.TrimSpace
TrimSpace(s) == TrimRight(TrimLeft(s))

\* ------------------------------------------------------------------------
\* Pattern literals
\* ------------------------------------------------------------------------

LtSection == <<"<", "s", "e", "c", "t", "i", "o", "n">>
EndSection == <<"<", "/", "s", "e", "c", "t", "i", "o", "n", ">">>
LtTable == <<"<", "t", "a", "b", "l", "e">>
EndTable == <<"<", "/", "t", "a", "b", "l", "e", ">">>
LtImage == <<"<", "i", "m", "a", "g", "e">>
LtEmptyLine == <<"<", "e", "m", "p", "t", "y", "-", "l", "i", "n", "e">>
LtA == <<"<", "a">>
EndA == <<"<", "/", "a", ">">>
EndP == <<"<", "/", "p", ">">>
LtP == <<"<", "p">>
EndTitle == <<"<", "/", "t", "i", "t", "l", "e", ">">>
LtTitle == <<"<", "t", "i", "t", "l", "e">>
EndSubtitle == <<"<", "/", "s", "u", "b", "t", "i", "t", "l", "e", ">">>
LtSubtitle == <<"<", "s", "u", "b", "t", "i", "t", "l", "e">>
TableMarker == <<"\n", "[", "T", "a", "b", "l", "e", "]", "\n">>
ImageMarker == <<"\n", "[", "I", "m", "a", "g", "e", "]", "\n">>
LtHead == <<"<", "h", "e", "a", "d">>
EndHead == <<"<", "/", "h", "e", "a", "d", ">">>
LtScript == <<"<", "s", "c", "r", "i", "p", "t">>
EndScript == <<"<", "/", "s", "c", "r", "i", "p", "t", ">">>
LtStyle == <<"<", "s", "t", "y", "l", "e">>
EndStyle == <<"<", "/", "s", "t", "y", "l", "e", ">">>
AmpEntity == <<"&", "a", "m", "p", ";">>
LtEntity == <<"&", "l", "t", ";">>
NewLine == <<"\n">>
OneSpace == <<" ">>

\* ------------------------------------------------------------------------
\* Regular-expression matching
\* ------------------------------------------------------------------------

\* `<name[^>]*>` anchored at i: the index of the closing '>' of the match, 0
\* if there is no match at i.  [^>]* must stop at the first '>'.
TagOpenEnd(s, i, prefix) ==
    IF HasPrefixAt(s, i, prefix, TRUE) THEN IndexOfChar(s, ">", i + Len(prefix)) ELSE 0

\* `<name[^>]*>.*?</name>` anchored at i: the index of the last character of
\* the match, 0 if none.  Without the s flag '.' does not match a newline.
BlockEnd(s, i, prefix, close, dotall) ==
    LET g == TagOpenEnd(s, i, prefix)
        k == IF g = 0 THEN 0 ELSE IndexOfLit(s, close, g + 1, TRUE)
    IN  IF k = 0 THEN 0
        ELSE IF ~dotall /\ \E m \in (g + 1)..(k - 1) : s[m] = "\n" THEN 0
        ELSE k + Len(close) - 1

RECURSIVE ReplaceBlocks(_, _, _, _, _, _)
\* ReplaceAllString for `<name[^>]*>.*?</name>`, scanning from i
ReplaceBlocks(s, i, prefix, close, dotall, repl) ==
    IF i > Len(s) THEN <<>>
    ELSE LET e == BlockEnd(s, i, prefix, close, dotall)
         IN  IF e > 0 THEN repl \o ReplaceBlocks(s, e + 1, prefix, close, dotall, repl)
             ELSE <<s[i]>> \o ReplaceBlocks(s, i + 1, prefix, close, dotall, repl)

RECURSIVE ReplaceTags(_, _, _, _)
\* ReplaceAllString for `<name[^>]*>` (and `<name[^>]*/?>`, which matches the
\* same spans), scanning from i
ReplaceTags(s, i, prefix, repl) ==
    IF i > Len(s) THEN <<>>
    ELSE LET e == TagOpenEnd(s, i, prefix)
         IN  IF e > 0 THEN repl \o ReplaceTags(s, e + 1, prefix, repl)
             ELSE <<s[i]>> \o ReplaceTags(s, i + 1, prefix, repl)

RECURSIVE ReplaceLits(_, _, _, _)
\* ReplaceAllString for a case-insensitive literal such as `(?i)</p>`
ReplaceLits(s, i, lit, repl) ==
    IF i > Len(s) THEN <<>>
    ELSE IF HasPrefixAt(s, i, lit, TRUE)
         THEN repl \o ReplaceLits(s, i + Len(lit), lit, repl)
         ELSE <<s[i]>> \o ReplaceLits(s, i + 1, lit, repl)

\* `(?i)<empty-line\s*/?>` anchored at i: index of the closing '>', 0 if none
EmptyLineEnd(s, i) ==
    IF ~HasPrefixAt(s, i, LtEmptyLine, TRUE) THEN 0
    ELSE LET j == SkipReSpace(s, i + Len(LtEmptyLine))
             k == IF j <= Len(s) /\ s[j] = "/" THEN j + 1 ELSE j
         IN  IF k <= Len(s) /\ s[k] = ">" THEN k ELSE 0

RECURSIVE ReplaceEmptyLines(_, _)
ReplaceEmptyLines(s, i) ==
    IF i > Len(s) THEN <<>>
    ELSE LET e == EmptyLineEnd(s, i)
         IN  IF e > 0 THEN NewLine \o ReplaceEmptyLines(s, e + 1)
             ELSE <<s[i]>> \o ReplaceEmptyLines(s, i + 1)

RECURSIVE RemoveAnyTags(_, _)
\* ReplaceAllString(text, "") for `<[^>]+>`: at least one character between
\* the brackets, so "<>" is kept
RemoveAnyTags(s, i) ==
    IF i > Len(s) THEN <<>>
    ELSE LET g == IF s[i] = "<" THEN IndexOfChar(s, ">", i + 1) ELSE 0
         IN  IF g >= i + 2 THEN RemoveAnyTags(s, g + 1)
             ELSE <<s[i]>> \o RemoveAnyTags(s, i + 1)

RECURSIVE CollapseRuns(_, _, _, _)
\* ReplaceAllString for a run pattern: `[ \t]+` (chars = {" ", "\t"}, min 1)
\* or `\n{2,}` (chars = {"\n"}, min 2), each run replaced by repl
CollapseRuns(s, chars, min, repl) ==
    IF s = <<>> THEN <<>>
    ELSE IF Head(s) \notin chars THEN <<Head(s)>> \o CollapseRuns(Tail(s), chars, min, repl)
    ELSE LET stops == {j \in 1..Len(s) : s[j] \notin chars}
             n == IF stops = {} THEN Len(s) ELSE MinOf(stops) - 1
         IN  (IF n >= min THEN repl ELSE SubSeq(s, 1, n))
             \o CollapseRuns(Slice(s, n + 1, Len(s)), chars, min, repl)

\* ------------------------------------------------------------------------
\* formats/epub/content.go: stripHTMLTags
\* ------------------------------------------------------------------------

RECURSIVE StripFrom(_, _, _)
StripFrom(s, i, inTag) ==
    IF i > Len(s) THEN <<>>
    ELSE IF s[i] = "<" THEN StripFrom(s, i + 1, TRUE)
    ELSE IF s[i] = ">" THEN StripFrom(s, i + 1, FALSE)
    ELSE IF ~inTag THEN <<s[i]>> \o StripFrom(s, i + 1, inTag)
    ELSE StripFrom(s, i + 1, inTag)

stripHTMLTags(s) == StripFrom(s, 1, FALSE)

\* ------------------------------------------------------------------------
\* FB2 markup to text (fb2XMLToText) and the element extraction of a section
\* ------------------------------------------------------------------------

RECURSIVE RemoveSections(_)
\* one round of the loop: text is the string before the replacement, newText
\* the string after it
RemoveSectionsStep(text, newText) ==
    IF newText = text THEN text ELSE RemoveSections(newText)

\* the loop that applies `(?is)<section[^>]*>.*?</section>` -> "" until the
\* text no longer changes
RemoveSections(text) ==
    RemoveSectionsStep(text, ReplaceBlocks(text, 1, LtSection, EndSection, TRUE, <<>>))

\* the named entities html.UnescapeString decodes, over the characters the
\* model's inputs are written in: <<name, replacement, legacy>>; a legacy
\* name is also decoded without its semicolon
Entities == << <<<<"a", "m", "p">>, "&", TRUE>>,
               <<<<"l", "t">>, "<", TRUE>>,
               <<<<"g", "t">>, ">", TRUE>>,
               <<<<"q", "u", "o", "t">>, "\"", TRUE>>,
               <<<<"a", "p", "o", "s">>, "'", FALSE>> >>

\* the entity that begins at the '&' at index i: <<replacement, next index>>,
\* or <<>> when the '&' begins none and stays as it is
EntityAt(s, i) ==
    LET withSemi == {e \in 1..Len(Entities) :
                        HasPrefixAt(s, i + 1, Entities[e][1] \o <<";">>, FALSE)}
        legacy == {e \in 1..Len(Entities) :
                        Entities[e][3] /\ HasPrefixAt(s, i + 1, Entities[e][1], FALSE)}
    IN  IF withSemi # {}
        THEN LET e == CHOOSE x \in withSemi : TRUE
             IN  <<Entities[e][2], i + Len(Entities[e][1]) + 2>>
        ELSE IF legacy # {}
        THEN LET e == CHOOSE x \in legacy : TRUE
             IN  <<Entities[e][2], i + Len(Entities[e][1]) + 1>>
        ELSE <<>>

RECURSIVE UnescapeFrom(_, _)
UnescapeFrom(s, i) ==
    IF i > Len(s) THEN <<>>
    ELSE IF s[i] = "&" /\ EntityAt(s, i) # <<>>
         THEN <<EntityAt(s, i)[1]>> \o UnescapeFrom(s, EntityAt(s, i)[2])
         ELSE <<s[i]>> \o UnescapeFrom(s, i + 1)

\* html.UnescapeString
UnescapeString(s) == UnescapeFrom(s, 1)

\* strings.ReplaceAll of U+00A0 by a space
ReplaceNBSP(s) == [k \in 1..Len(s) |-> IF s[k] = NBSP THEN " " ELSE s[k]]

\* sections are removed, then tables, images, empty lines and links replaced
SpecialElements(text) ==
    ReplaceBlocks(
        ReplaceEmptyLines(
            ReplaceTags(
                ReplaceBlocks(RemoveSections(text), 1, LtTable, EndTable, FALSE, TableMarker),
                1, LtImage, ImageMarker),
            1),
        1, LtA, EndA, TRUE, <<>>)

\* </p> -> "\n", <p...> -> "", </title>, <title...>, </subtitle>,
\* <subtitle...> -> "\n", in this order
ParagraphsAndTitles(text) ==
    ReplaceTags(
        ReplaceLits(
            ReplaceTags(
                ReplaceLits(
                    ReplaceTags(ReplaceLits(text, 1, EndP, NewLine), 1, LtP, <<>>),
                    1, EndTitle, NewLine),
                1, LtTitle, NewLine),
            1, EndSubtitle, NewLine),
        1, LtSubtitle, NewLine)

\* NBSP -> " ", `[ \t]+` -> " ", `\n{2,}` -> "\n"
CleanWhitespace(text) ==
    CollapseRuns(CollapseRuns(ReplaceNBSP(text), {" ", "\t"}, 1, OneSpace), {"\n"}, 2, NewLine)

fb2XMLToText(xmlContent) ==
    IF xmlContent = <<>> THEN <<>>
    ELSE TrimSpace(CleanWhitespace(UnescapeString(
            RemoveAnyTags(ParagraphsAndTitles(SpecialElements(xmlContent)), 1))))

\* ------------------------------------------------------------------------
\* formats/fb2/sanitize.go
\* ------------------------------------------------------------------------

\* U+FFFD, what utf8.DecodeRune returns for a byte that is not valid UTF-8
RUNEERR == "FFFD"

\* utf8.Valid
Utf8Valid(data) == \A k \in 1..Len(data) : data[k] # HIBYTE

\* every invalid byte is >= 0x80 (a byte below 0x80 is valid on its own) and
\* is reinterpreted as Windows-1251
fixInvalidUTF8(data) ==
    [k \in 1..Len(data) |-> IF data[k] = HIBYTE THEN CYR ELSE data[k]]

\* CTL stands for the runes outside the XML-legal ranges; an invalid byte
\* decodes to U+FFFD, which is inside them
removeIllegalXMLChars(data) ==
    [k \in 1..Len(data) |->
        IF data[k] = CTL THEN " " ELSE IF data[k] = HIBYTE THEN RUNEERR ELSE data[k]]

RECURSIVE DigitsEnd(_, _, _)
\* first index at or after i that is not a digit (hex = TRUE: a hex digit)
DigitsEnd(s, i, hex) ==
    IF i <= Len(s) /\ (IF hex THEN IsHexDigit(s[i]) ELSE IsDigit(s[i]))
    THEN DigitsEnd(s, i + 1, hex) ELSE i

NamedEntityNames == {<<"a", "m", "p">>, <<"l", "t">>, <<"g", "t">>,
                     <<"q", "u", "o", "t">>, <<"a", "p", "o", "s">>}

\* the three patterns tried on data[i:] where data[i] = '&':
\* ^&(amp|lt|gt|quot|apos);   ^&#[0-9]+;   ^&#x[0-9a-fA-F]+;
IsValidEntityAtNamedOnly(s, i) ==
    \E n \in NamedEntityNames : HasPrefixAt(s, i + 1, n \o <<";">>, FALSE)

IsValidEntityAt(s, i) ==
    \/ \E n \in NamedEntityNames : HasPrefixAt(s, i + 1, n \o <<";">>, FALSE)
    \/ /\ HasPrefixAt(s, i + 1, <<"#">>, FALSE)
       /\ LET e == DigitsEnd(s, i + 2, FALSE)
          IN  e > i + 2 /\ e <= Len(s) /\ s[e] = ";"
    \/ /\ HasPrefixAt(s, i + 1, <<"#", "x">>, FALSE)
       /\ LET e == DigitsEnd(s, i + 3, TRUE)
          IN  e > i + 3 /\ e <= Len(s) /\ s[e] = ";"

RECURSIVE AmpersandsFrom(_, _)
AmpersandsFromEscapeAll(data, i) ==
    IF i > Len(data) THEN <<>>
    ELSE IF data[i] = "&"
         THEN AmpEntity \o AmpersandsFrom(data, i + 1)
         ELSE <<data[i]>> \o AmpersandsFrom(data, i + 1)

AmpersandsFrom(data, i) ==
    IF i > Len(data) THEN <<>>
    ELSE IF data[i] = "&" /\ ~IsValidEntityAt(data, i)
         THEN AmpEntity \o AmpersandsFrom(data, i + 1)
         ELSE <<data[i]>> \o AmpersandsFrom(data, i + 1)

fixUnescapedAmpersands(data) == AmpersandsFrom(data, 1)

\* `<([0-9]|\.\.\.|--?[^a-zA-Z>])` anchored at i: index of the last character
\* of the match, 0 if none
InvalidTagStartEnd(s, i) ==
    LET other(j) == j <= Len(s) /\ ~IsLetter(s[j]) /\ s[j] # ">"
    IN  IF i > Len(s) \/ s[i] # "<" THEN 0
        ELSE IF i + 1 <= Len(s) /\ IsDigit(s[i + 1]) THEN i + 1
        ELSE IF HasPrefixAt(s, i + 1, <<".", ".", ".">>, FALSE) THEN i + 3
        ELSE IF HasPrefixAt(s, i + 1, <<"-", "-">>, FALSE) /\ other(i + 3) THEN i + 3
        ELSE IF HasPrefixAt(s, i + 1, <<"-">>, FALSE) /\ other(i + 2) THEN i + 2
        ELSE 0

RECURSIVE InvalidTagStartsFrom(_, _)
\* ReplaceAllFunc: "&lt;" followed by the match without its '<'
InvalidTagStartsFrom(s, i) ==
    IF i > Len(s) THEN <<>>
    ELSE LET e == InvalidTagStartEnd(s, i)
         IN  IF e > 0 THEN LtEntity \o SubSeq(s, i + 1, e) \o InvalidTagStartsFrom(s, e + 1)
             ELSE <<s[i]>> \o InvalidTagStartsFrom(s, i + 1)

\* Valid tag starts: a-z, A-Z, /, !, ?, _
isValidTagStart(nextByte) == IsLetter(nextByte) \/ nextByte \in {"/", "!", "?", "_"}

RECURSIVE TagOpensFrom(_, _)
TagOpensFromKeepLast(data, i) ==
    IF i > Len(data) THEN <<>>
    ELSE IF data[i] = "<" /\ i + 1 <= Len(data) /\ ~isValidTagStart(data[i + 1])
         THEN LtEntity \o TagOpensFrom(data, i + 1)
         ELSE <<data[i]>> \o TagOpensFrom(data, i + 1)

TagOpensFrom(data, i) ==
    IF i > Len(data) THEN <<>>
    ELSE IF data[i] = "<" /\ (i + 1 > Len(data) \/ ~isValidTagStart(data[i + 1]))
         THEN LtEntity \o TagOpensFrom(data, i + 1)
         ELSE <<data[i]>> \o TagOpensFrom(data, i + 1)

fixMalformedTags(data) == TagOpensFrom(InvalidTagStartsFrom(data, 1), 1)

sanitizeFB2XML(data) ==
    LET d1 == IF ~Utf8Valid(data) THEN fixInvalidUTF8(data) ELSE data
    IN  fixMalformedTags(fixUnescapedAmpersands(removeIllegalXMLChars(d1)))

\* data after line 12 of sanitizeFB2XML
ValidUTF8(data) == IF ~Utf8Valid(data) THEN fixInvalidUTF8(data) ELSE data

\* the values data takes in sanitizeFB2XML: after the UTF-8 repair, after
\* removeIllegalXMLChars, after fixUnescapedAmpersands, after fixMalformedTags
SanitizeSteps(data) ==
    <<ValidUTF8(data),
      removeIllegalXMLChars(ValidUTF8(data)),
      fixUnescapedAmpersands(removeIllegalXMLChars(ValidUTF8(data))),
      fixMalformedTags(fixUnescapedAmpersands(removeIllegalXMLChars(ValidUTF8(data))))>>

\* ------------------------------------------------------------------------
\* FB2: elements of a section, chapter flattening (unnamed/part_005, part_003)
\* ------------------------------------------------------------------------

DigitChars == <<"0", "1", "2", "3", "4", "5", "6", "7", "8", "9">>

RECURSIVE Itoa(_)
\* the %d verb of fmt.Sprintf, for n >= 0
Itoa(n) == IF n < 10 THEN <<DigitChars[n + 1]>>
           ELSE Itoa(n \div 10) \o <<DigitChars[(n % 10) + 1]>>

\* fmt.Sprintf("Chapter %d", n)
ChapterTitle(n) == <<"C", "h", "a", "p", "t", "e", "r", " ">> \o Itoa(n)

\* fmt.Sprintf("section-%d", n), fmt.Sprintf("body-title-%d", n),
\* fmt.Sprintf("toc-%d", n): the prefix is kept as one token
SprintfID(prefix, n) == <<prefix>> \o Itoa(n)

\* a Paragraph for the <p> with inner markup content and converted text
\* text, none if the text is blank
ParagraphOf(content, text) ==
    IF TrimSpace(text) # <<>>
    THEN <<[type |-> "Paragraph", Text |-> TrimSpace(text), HTML |-> content]>>
    ELSE <<>>

RECURSIVE EpigraphParas(_, _)
\* the Paragraphs of one epigraph: its non-blank <p> elements from index k on
EpigraphParas(paras, k) ==
    IF k > Len(paras) THEN <<>>
    ELSE ParagraphOf(paras[k], fb2XMLToText(paras[k])) \o EpigraphParas(paras, k + 1)

EpigraphOf(epigraphParas) ==
    IF Len(epigraphParas) > 0
    THEN <<[type |-> "Epigraph", Paragraphs |-> epigraphParas]>>
    ELSE <<>>

RECURSIVE EpigraphElements(_, _)
EpigraphElements(epigraphs, k) ==
    IF k > Len(epigraphs) THEN <<>>
    ELSE EpigraphOf(EpigraphParas(epigraphs[k], 1)) \o EpigraphElements(epigraphs, k + 1)

\* the Heading of a section whose title converts to titleText, if the title
\* is present and not blank
SectionHeading(section, titleText) ==
    IF section.Title # <<>> /\ TrimSpace(titleText) # <<>>
    THEN <<[type |-> "Heading", Text |-> TrimSpace(titleText), Level |-> 2]>>
    ELSE <<>>

\* sectionToElements: heading, epigraphs, paragraphs.  A Paragraph inside an
\* Epigraph and a Paragraph element are built by the same code (Text is the
\* trimmed conversion, HTML the inner markup).
sectionToElements(section) ==
    SectionHeading(section, fb2XMLToText(section.Title))
        \o EpigraphElements(section.Epigraphs, 1)
        \o EpigraphParas(section.Paragraphs, 1)

\* The walk carries a record st = [chapters, chapterNum, trace]: the
\* content's chapter list, the shared counter, and (not part of the program)
\* for each chapter the body index and section it was produced from.
\* secs is the table of the document's sections; a section's Sections field
\* lists the ids of its direct subsections.

\* content.Chapters = append(content.Chapters, ...); chapterNum++
AppendChapter(st, chapter, b, id) ==
    [chapters |-> Append(st.chapters, chapter),
     chapterNum |-> st.chapterNum + 1,
     trace |-> Append(st.trace, [body |-> b, sec |-> id])]

\* the title of a section's chapter: "Chapter N" if its own title is blank
SectionTitle(title, chapterNum) ==
    IF title = <<>> THEN ChapterTitle(chapterNum) ELSE title

\* a variant of EmitSection that emits only sections with content
EmitSectionContentOnly(st, b, id, depth, title, elements, hasNestedSections) ==
    IF Len(elements) > 0
    THEN AppendChapter(st, [ID |-> SprintfID("section-", st.chapterNum),
                            Title |-> TrimSpace(SectionTitle(title, st.chapterNum)),
                            Level |-> depth - 1,
                            Elements |-> elements], b, id)
    ELSE st

\* the part of addSections that emits the section's chapter
EmitSection(st, b, id, depth, title, elements, hasNestedSections) ==
    IF Len(elements) > 0 \/ ~hasNestedSections
    THEN AppendChapter(st, [ID |-> SprintfID("section-", st.chapterNum),
                            Title |-> TrimSpace(SectionTitle(title, st.chapterNum)),
                            Level |-> depth - 1,
                            Elements |-> elements], b, id)
    ELSE st

RECURSIVE addSections(_, _, _, _, _, _)
RECURSIVE addSectionList(_, _, _, _, _, _, _)

\* a variant of addSections that compares the depth before the increment
addSectionsLateCut(p, secs, st, b, id, depthIn) ==
    IF depthIn > p.TOCMaxDepth THEN st
    ELSE addSectionList(p, secs,
            EmitSection(st, b, id, depthIn + 1, fb2XMLToText(secs[id].Title),
                        sectionToElements(secs[id]), Len(secs[id].Sections) > 0),
            b, secs[id].Sections, 1, depthIn + 1)

\* addSections is entered with the depth of the parent; depthIn + 1 is the
\* value of depth after depth++
addSections(p, secs, st, b, id, depthIn) ==
    IF depthIn + 1 > p.TOCMaxDepth THEN st
    ELSE addSectionList(p, secs,
            EmitSection(st, b, id, depthIn + 1, fb2XMLToText(secs[id].Title),
                        sectionToElements(secs[id]), Len(secs[id].Sections) > 0),
            b, secs[id].Sections, 1, depthIn + 1)

\* for _, subsection := range sections { p.addSections(..., depth, ...) }
addSectionList(p, secs, st, b, ids, k, depth) ==
    IF k > Len(ids) THEN st
    ELSE addSectionList(p, secs, addSections(p, secs, st, b, ids[k], depth), b, ids, k + 1, depth)

\* a variant of EmitBodyTitle that leaves the counter as it is
EmitBodyTitleUncounted(st, b, body, titleText) ==
    IF body.Title # <<>>
    THEN [AppendChapter(st, [ID |-> SprintfID("body-title-", st.chapterNum),
                             Title |-> titleText,
                             Level |-> 0,
                             Elements |-> <<[type |-> "Heading", Text |-> titleText,
                                             Level |-> 1]>>], b, 0)
          EXCEPT !.chapterNum = st.chapterNum]
    ELSE st

\* Add body title as chapter if present
EmitBodyTitle(st, b, body, titleText) ==
    IF body.Title # <<>>
    THEN AppendChapter(st, [ID |-> SprintfID("body-title-", st.chapterNum),
                            Title |-> titleText,
                            Level |-> 0,
                            Elements |-> <<[type |-> "Heading", Text |-> titleText,
                                            Level |-> 1]>>], b, 0)
    ELSE st

\* the body of the loop over fb2.Bodies
AddBody(p, secs, st, b, body) ==
    IF body.Name \in {"notes", "comments"} /\ ~p.ParseNotes THEN st
    ELSE addSectionList(p, secs, EmitBodyTitle(st, b, body, fb2XMLToText(body.Title)),
                        b, body.Sections, 1, 0)

RECURSIVE AddBodies(_, _, _, _, _)
AddBodies(p, secs, st, bodies, b) ==
    IF b > Len(bodies) THEN st
    ELSE AddBodies(p, secs, AddBody(p, secs, st, b, bodies[b]), bodies, b + 1)

\* Parser.extractContent: the walk from chapterNum := 1
extractContentFB2(p, fb2) ==
    AddBodies(p, fb2.secs, [chapters |-> <<>>, chapterNum |-> 1, trace |-> <<>>],
              fb2.Bodies, 1)

\* An int is written as its decimal numeral without leading zeros, so that
\* values up to the 64-bit limits can be told apart.
MaxInt64Numeral ==
    <<"9", "2", "2", "3", "3", "7", "2", "0", "3", "6", "8", "5", "4", "7", "7",
      "5", "8", "0", "7">>
MinInt64Magnitude ==
    <<"9", "2", "2", "3", "3", "7", "2", "0", "3", "6", "8", "5", "4", "7", "7",
      "5", "8", "0", "8">>

DigitVal(c) == CHOOSE k \in 0..9 : DigitChars[k + 1] = c

\* s without the one sign strconv.Atoi accepts in front
Unsigned(s) == IF s # <<>> /\ s[1] \in {"+", "-"} THEN Tail(s) ELSE s

AllDigits(s) == \A k \in 1..Len(s) : IsDigit(s[k])

RECURSIVE StripZeros(_)
StripZeros(s) == IF Len(s) > 1 /\ s[1] = "0" THEN StripZeros(Tail(s)) ELSE s

\* a < b for two numerals without leading zeros
NumeralLess(a, b) ==
    \/ Len(a) < Len(b)
    \/ /\ Len(a) = Len(b)
       /\ \E k \in 1..Len(a) :
             /\ \A j \in 1..(k - 1) : a[j] = b[j]
             /\ DigitVal(a[k]) < DigitVal(b[k])

\* the magnitude is outside the range of a 64-bit int
OutOfRange(neg, mag) ==
    IF neg THEN NumeralLess(MinInt64Magnitude, mag) ELSE NumeralLess(MaxInt64Numeral, mag)

\* strconv.Atoi: an optional sign and decimal digits; a syntax error for
\* anything else, a range error for a value that does not fit
Atoi(s) ==
    IF Unsigned(s) = <<>> \/ ~AllDigits(Unsigned(s))
    THEN [err |-> "syntax", neg |-> FALSE, mag |-> <<"0">>]
    ELSE IF OutOfRange(s[1] = "-", StripZeros(Unsigned(s)))
    THEN [err |-> "range", neg |-> s[1] = "-", mag |-> <<"0">>]
    ELSE [err |-> "nil", neg |-> s[1] = "-", mag |-> StripZeros(Unsigned(s))]

\* the part of parseSeriesNumber after the blank check, for n = Atoi(s)
SeriesNumberOf(n) ==
    IF n.err = "nil" /\ ~n.neg /\ n.mag # <<"0">> THEN n.mag ELSE <<"1">>

\* a variant of parseSeriesNumber that returns every number it parsed
parseSeriesNumberAsParsed(s) ==
    IF TrimSpace(s) = <<>> THEN <<"0">>
    ELSE IF Atoi(TrimSpace(s)).err = "nil" THEN Atoi(TrimSpace(s)).mag
    ELSE <<"1">>

parseSeriesNumber(s) ==
    IF TrimSpace(s) = <<>> THEN <<"0">> ELSE SeriesNumberOf(Atoi(TrimSpace(s)))

\* extractMetadata (fb2): the title and the series index
extractMetadataFB2(fb2) ==
    [Title |-> TrimSpace(fb2.BookTitle),
     Language |-> TrimSpace(fb2.Lang),
     SeriesIndex |-> parseSeriesNumber(fb2.SeqNumber)]

\* ------------------------------------------------------------------------
\* FB2: inputs
\* ------------------------------------------------------------------------

\* Bounds of the model
MaxSections == 4
MaxNest == 4
MaxDataLen == 2
MaxNumberLen == 2
MaxCovers == 2

SeqsUpTo(S, n) == UNION {[1..k -> S] : k \in 0..n}

RECURSIVE SortedSeq(_)
\* the elements of a finite set of integers in increasing order
SortedSeq(S) == IF S = {} THEN <<>> ELSE <<MinOf(S)>> \o SortedSeq(S \ {MinOf(S)})

\* A forest of n sections in document order is given by the nesting depth of
\* each section: the first is at depth 1 and a section is at most one level
\* deeper than the one before it.
Shapes(n) == {d \in [1..n -> 1..MaxNest] :
                 /\ n > 0 => d[1] = 1
                 /\ \A k \in 2..n : d[k] <= d[k - 1] + 1}

\* the direct subsections of section i, the top-level sections for i = 0
Kids(d, i) ==
    LET base == IF i = 0 THEN 0 ELSE d[i]
    IN  SortedSeq({j \in (i + 1)..Len(d) :
                      d[j] = base + 1 /\ \A k \in (i + 1)..j : d[k] > base})

TitleT == <<"<", "p", ">", "T", "<", "/", "p", ">">>
TitleBlank == <<"<", "p", ">", " ", "<", "/", "p", ">">>
TitleB == <<"<", "p", ">", "B", "<", "/", "p", ">">>
ParaX == <<"x">>
ParaBlank == <<" ">>
ParaEntity == <<"a", "&", "a", "m", "p", ";", "b">>
ParaLink == <<"<", "a", ">", "n", "<", "/", "a", ">", "y", " ">>
ParaE == <<"e">>

\* what a section holds besides its subsections
BasicKinds == {
    [Title |-> <<>>, Paragraphs |-> <<>>, Epigraphs |-> <<>>],
    [Title |-> TitleT, Paragraphs |-> <<>>, Epigraphs |-> <<>>],
    [Title |-> <<>>, Paragraphs |-> <<ParaX>>, Epigraphs |-> <<>>] }

RichKinds == {
    [Title |-> <<>>, Paragraphs |-> <<ParaX>>, Epigraphs |-> <<>>],
    [Title |-> TitleBlank, Paragraphs |-> <<ParaBlank, ParaEntity>>, Epigraphs |-> <<>>],
    [Title |-> TitleT, Paragraphs |-> <<ParaLink>>,
     Epigraphs |-> <<<<ParaE, ParaBlank>>, <<ParaBlank>>>>] }

MkSection(kind, kids) ==
    [Title |-> kind.Title, Paragraphs |-> kind.Paragraphs,
     Epigraphs |-> kind.Epigraphs, Sections |-> kids]

\* the outcomes of ianaindex.IANA.Encoding(charset): an encoding, no encoding
\* and no error, or an error for a name the registry does not know
IANAOutcomes == {"enc", "nil", "err"}

\* the bytes of an FB2 file: the document a well-formed file decodes to, a
\* text run `run` in which the characters that break decoding may occur, put
\* after the first errAfter bodies, and wf = FALSE for a file whose element
\* structure is broken (e.g. truncated)
XmlBytes(run, wf, errAfter, bodies, secs) ==
    [kind |-> "xml", run |-> run, wf |-> wf, errAfter |-> errAfter,
     BookTitle |-> <<" ", "T", "e", "s", "t">>, SeqNumber |-> <<>>,
     Lang |-> <<"e", "n">>,
     charset |-> <<>>, iana |-> "err",
     Bodies |-> bodies, secs |-> secs]

\* documents that vary the section tree of one untitled body
ForestDocs ==
    {XmlBytes(<<>>, TRUE, 0,
              <<[Name |-> "", Title |-> <<>>, Sections |-> Kids(d, 0)]>>,
              [i \in 1..n |-> MkSection(kinds[i], Kids(d, i))]) :
        <<n, d, kinds>> \in UNION {UNION {{<<m, sh, ks>> : ks \in [1..m -> BasicKinds]}
                                           : sh \in Shapes(m)} : m \in 0..MaxSections}}

DataAlphabet == {"a", "&", "<", "3", CTL, HIBYTE}

\* documents that vary the defects of the bytes: a titled main body and a
\* second body, each with one section
DefectDocs ==
    {XmlBytes(run, wf, errAfter,
              <<[Name |-> "", Title |-> TitleB, Sections |-> <<1>>],
                [Name |-> name2, Title |-> <<>>, Sections |-> <<2>>]>>,
              <<MkSection(k1, <<>>), MkSection(k2, <<>>)>>) :
        <<run, wf, errAfter, name2, k1, k2>> \in
            SeqsUpTo(DataAlphabet, MaxDataLen) \X BOOLEAN \X (0..2)
                \X {"notes", ""} \X RichKinds
                \X {[Title |-> <<>>, Paragraphs |-> <<ParaX>>, Epigraphs |-> <<>>]}}

NameTxt == <<"a", ".", "t", "x", "t">>
NameFB2 == <<"b", ".", "F", "B", "2">>

\* ZIP archives: the bytes begin with the local-file-header signature
ZipBytes(files) == [kind |-> "zip", files |-> files]

ZipInputs ==
    {ZipBytes(<<[Name |-> NameTxt, content |-> x]>>) : x \in {<<>>}}
    \cup {ZipBytes(<<[Name |-> NameTxt, content |-> <<>>], [Name |-> NameFB2, content |-> d]>>) :
            d \in {x \in DefectDocs : x.errAfter = 1 /\ x.Bodies[2].Name = "notes"
                                      /\ Len(x.run) <= 1}}
    \cup {ZipBytes(<<[Name |-> NameTxt, content |-> <<>>],
                     [Name |-> NameFB2, content |-> [kind |-> "damaged", io |-> io]]>>) :
            io \in {"open", "read"}}

NumberAlphabet == {"0", "7", "-", "+", " ", "a"}

\* sequence numbers at and around the limits of a 64-bit int, and some with
\* signs, leading zeros and surrounding white space
LongNumbers ==
    {MaxInt64Numeral, MinInt64Magnitude, <<"-">> \o MinInt64Magnitude,
     <<"0", "0">> \o MaxInt64Numeral, <<"-">> \o MaxInt64Numeral \o <<"0">>,
     <<" ", "1", "2", NBSP>>, <<"+", "0", "7", "0">>, <<"7", ".", "5">>,
     <<"-", "0", "0">>, <<"a", "b", "c">>}

SeriesNumbers == SeqsUpTo(NumberAlphabet, MaxNumberLen) \cup LongNumbers

\* documents that vary the number attribute of the sequence element
SeriesDocs ==
    {[XmlBytes(<<>>, TRUE, 0, <<[Name |-> "", Title |-> <<>>, Sections |-> <<1>>]>>,
               <<MkSection([Title |-> <<>>, Paragraphs |-> <<ParaX>>, Epigraphs |-> <<>>],
                           <<>>)>>)
         EXCEPT !.SeqNumber = n] : n \in SeriesNumbers}

\* declared languages: none, two letters, longer, shorter, padded, and
\* some with letters of two bytes each
Languages ==
    {<<>>, <<"e", "n">>, <<"e", "n", "g">>, <<"e">>, <<"e", "n", "-", "U", "S">>,
     <<" ", "r", "u", " ">>, <<CYR, CYR>>, <<"a", CYR>>, <<" ", " ">>}

LangDocs ==
    {[XmlBytes(<<>>, TRUE, 0, <<[Name |-> "", Title |-> <<>>, Sections |-> <<1>>]>>,
               <<MkSection([Title |-> <<>>, Paragraphs |-> <<ParaX>>, Epigraphs |-> <<>>],
                           <<>>)>>)
         EXCEPT !.Lang = l] : l \in Languages}

\* text runs with '&' inside and outside entities
EntityRuns ==
    {<<"&", "a", "m", "p", ";">>,
     <<"&", "l", "t", ";", "&", "g", "t", ";">>,
     <<"&", "q", "u", "o", "t", ";", "x", "&", "a", "p", "o", "s", ";">>,
     <<"&", "#", "1", "2", ";">>,
     <<"&", "#", "x", "1", "F", ";">>,
     <<"&", "#", "X", "1", "F", ";">>,
     <<"&", "#", ";">>,
     <<"&", "#", "x", ";">>,
     <<"&", "a", "m", "p">>,
     <<"&", " ", "&">>,
     <<"&", "&", "a", "m", "p", ";">>,
     <<"&", "A", "M", "P", ";">>,
     <<"&", "#", "1", "a", ";">>,
     <<"&", "n", "b", "s", "p", ";">>,
     <<"a", "&", "b">>,
     <<"&", "#", "x", "1", "g", ";">>,
     <<"&">>}

\* text runs with '<' before the characters the sanitizer tells apart
TagRuns ==
    {<<"<">>,
     <<"<", "a", ">">>,
     <<"<", "/", "a", ">">>,
     <<"<", "!">>,
     <<"<", "?">>,
     <<"<", "_">>,
     <<"<", "3">>,
     <<"<", ".", ".", ".">>,
     <<"<", ".", ".">>,
     <<"<", "-", "<", "a">>,
     <<"<", "-", "-", "x">>,
     <<"<", "-", ">">>,
     <<"<", "-", "a">>,
     <<"a", "<">>,
     <<"<", "<", "a">>,
     <<"<", " ", "a">>,
     <<"<", "&">>,
     <<"<", "A">>}

\* documents that vary the text the sanitizer repairs; a file with a broken
\* element structure (wf = FALSE) is sanitized whatever its text
SanitizerDocs ==
    {XmlBytes(run, wf, 0, <<[Name |-> "", Title |-> <<>>, Sections |-> <<1>>]>>,
              <<MkSection([Title |-> <<>>, Paragraphs |-> <<ParaX>>, Epigraphs |-> <<>>],
                          <<>>)>>) :
        run \in EntityRuns \cup TagRuns, wf \in BOOLEAN}

\* encoding labels of XML declarations, in several letter cases
CharsetLabels ==
    {<<"W", "i", "n", "d", "o", "w", "s", "-", "1", "2", "5", "1">>,
     <<"w", "i", "n", "d", "o", "w", "s", "-", "1", "2", "5", "2">>,
     <<"I", "S", "O", "-", "8", "8", "5", "9", "-", "1">>,
     <<"L", "a", "t", "i", "n", "1">>,
     <<"K", "O", "I", "8", "-", "R">>,
     <<"k", "o", "i", "8", "-", "u">>,
     <<"U", "T", "F", "-", "8">>,
     <<"u", "t", "f", "-", "1", "6">>,
     <<"U", "T", "F", "-", "1", "6", "L", "E">>,
     <<"u", "t", "f", "-", "1", "6", "b", "e">>,
     <<"i", "b", "m", "8", "6", "6">>,
     <<"u", "s", "-", "a", "s", "c", "i", "i">>,
     <<"x", "-", "n", "o", "n", "e">>}

\* documents that declare an encoding and hold a byte >= 0x80 or none
CharsetDocs ==
    {[XmlBytes(run, TRUE, 0, <<[Name |-> "", Title |-> <<>>, Sections |-> <<1>>]>>,
               <<MkSection([Title |-> <<>>, Paragraphs |-> <<ParaX>>, Epigraphs |-> <<>>],
                           <<>>)>>)
         EXCEPT !.charset = label, !.iana = iana] :
        run \in {<<"a">>, <<"a", HIBYTE>>}, label \in CharsetLabels, iana \in IANAOutcomes}

FB2Inputs == ForestDocs \cup DefectDocs \cup ZipInputs \cup SeriesDocs \cup SanitizerDocs
             \cup CharsetDocs \cup LangDocs

FB2Configs ==
    {[TOCMaxDepth |-> d, ParseNotes |-> n] : d \in {1, 2, 3}, n \in BOOLEAN}

\* ------------------------------------------------------------------------
\* Elements and their counts (unnamed/part_001, parser/parser.go)
\* ------------------------------------------------------------------------

\* the bytes of a character in UTF-8
Utf8Width(c) ==
    IF c \in {CYR, NBSP, LATIN} THEN 2 ELSE IF c = RUNEERR THEN 3 ELSE 1

RECURSIVE ByteLen(_)
\* len(s) of a Go string
ByteLen(s) == IF s = <<>> THEN 0 ELSE Utf8Width(s[1]) + ByteLen(Tail(s))

RECURSIVE Fields(_, _, _)
\* strings.Fields(s) from character i on, word the field being read
Fields(s, i, word) ==
    IF i > Len(s) THEN (IF word = <<>> THEN <<>> ELSE <<word>>)
    ELSE IF IsSpace(s[i])
         THEN (IF word = <<>> THEN <<>> ELSE <<word>>) \o Fields(s, i + 1, <<>>)
    ELSE Fields(s, i + 1, Append(word, s[i]))

\* Paragraph.CharCount, Paragraph.WordCount (and those of Heading)
TextCharCount(text) == ByteLen(text)
TextWordCount(text) == Len(Fields(text, 1, <<>>))

RECURSIVE EpigraphCharCount(_, _, _)
\* Epigraph.CharCount: the loop over e.Paragraphs from index k, total so far
EpigraphCharCount(paras, k, total) ==
    IF k > Len(paras) THEN total
    ELSE EpigraphCharCount(paras, k + 1, total + TextCharCount(paras[k].Text))

RECURSIVE EpigraphWordCountLast(_, _, _)
\* a variant of Epigraph.WordCount that keeps the count of the last paragraph
EpigraphWordCountLast(paras, k, total) ==
    IF k > Len(paras) THEN total
    ELSE EpigraphWordCountLast(paras, k + 1, TextWordCount(paras[k].Text))

RECURSIVE EpigraphWordCount(_, _, _)
\* Epigraph.WordCount: the loop over e.Paragraphs from index k, total so far
EpigraphWordCount(paras, k, total) ==
    IF k > Len(paras) THEN total
    ELSE EpigraphWordCount(paras, k + 1, total + TextWordCount(paras[k].Text))

\* elem.CharCount() and elem.WordCount() by the type of the element
CharCount(elem) ==
    IF elem.type \in {"Paragraph", "Heading"} THEN TextCharCount(elem.Text)
    ELSE IF elem.type = "Epigraph" THEN EpigraphCharCount(elem.Paragraphs, 1, 0)
    ELSE 0

WordCount(elem) ==
    IF elem.type \in {"Paragraph", "Heading"} THEN TextWordCount(elem.Text)
    ELSE IF elem.type = "Epigraph" THEN EpigraphWordCount(elem.Paragraphs, 1, 0)
    ELSE 0

RECURSIVE GetTotalCharacters(_, _, _, _)
\* Book.GetTotalCharacters: the loops over chapters (c) and elements (e)
GetTotalCharacters(chapters, c, e, total) ==
    IF c > Len(chapters) THEN total
    ELSE IF e > Len(chapters[c].Elements) THEN GetTotalCharacters(chapters, c + 1, 1, total)
    ELSE GetTotalCharacters(chapters, c, e + 1,
                            total + CharCount(chapters[c].Elements[e]))

RECURSIVE GetTotalWords(_, _, _, _)
\* Book.GetTotalWords
GetTotalWords(chapters, c, e, total) ==
    IF c > Len(chapters) THEN total
    ELSE IF e > Len(chapters[c].Elements) THEN GetTotalWords(chapters, c + 1, 1, total)
    ELSE GetTotalWords(chapters, c, e + 1,
                       total + WordCount(chapters[c].Elements[e]))

\* what the caller reads off a Book: the two totals, and the two counts of
\* every element of every chapter
CountsOf(chapters) ==
    [chars |-> GetTotalCharacters(chapters, 1, 1, 0),
     words |-> GetTotalWords(chapters, 1, 1, 0),
     elems |-> [c \in 1..Len(chapters) |->
                  [e \in 1..Len(chapters[c].Elements) |->
                      [chars |-> CharCount(chapters[c].Elements[e]),
                       words |-> WordCount(chapters[c].Elements[e])]]]]

NoCounts == [chars |-> 0 - 1, words |-> 0 - 1, elems |-> <<>>]

\* ------------------------------------------------------------------------
\* FB2: the parse as a state machine (unnamed/part_003)
\* ------------------------------------------------------------------------

VARIABLES
    fbInput,    \* the bytes given to the parse call
    fbCfg,      \* the Parser: TOCMaxDepth, ParseNotes
    fbPc,       \* position of the call
    fbData,     \* data: the bytes parseFromBytes currently works on
    fbDoc,      \* fb2: the fb2Document being decoded into
    fbSan,      \* sanitizedData
    fbHist,     \* history: decode attempts and sanitizer runs so far
    fbResult,   \* what the call returned
    fbTrace     \* history: the section each chapter was produced from

fbVars == <<fbInput, fbCfg, fbPc, fbData, fbDoc, fbSan, fbHist, fbResult, fbTrace>>

\* One call of the EPUB parser on an archive, and a second call on the same
\* archive.
VARIABLES
    epZip,      \* the archive: zr.File
    epPc,       \* where the current call stands
    epPkg,      \* pkg, the decoded package file
    epBase,     \* baseDir
    epTocIDs,   \* tocIDs as extractTOCEntries built it
    epEntries,  \* the entries extractTOCEntries returned
    epResults,  \* what the calls made so far returned
    epTraces,   \* history: where each chapter of each call came from
    epIO        \* the handles the current call opened and closed, the Close
                \* calls it deferred, and what a fast extraction returned

epVars == <<epZip, epPc, epPkg, epBase, epTocIDs, epEntries, epResults, epTraces, epIO>>

\* The parser registry and the goroutines that call Register, GetParser and
\* RegisteredFormats.
VARIABLES
    parsers,        \* globalRegistry.parsers: lower-cased format -> Parser
    registryMutex,  \* registryMutex: who holds it for writing, who for reading
    rgCalls,        \* per goroutine: the registry call it is in, or its last one
    rgHist          \* history: the writes to each key of the map in their
                    \* order, and the last of them whose Register has returned

rgVars == <<parsers, registryMutex, rgCalls, rgHist>>

\* The registrations of fast extractors and the goroutines that register and
\* extract.
VARIABLES
    extractors,     \* extractors: format -> FastExtractor
    extractorsMu,   \* extractorsMu
    extractFns,     \* extractEPUBCover .. extractFB2MetadataReader
    exCalls,        \* per goroutine: the call it is in, or its last one
    exHist          \* history: the calls begun so far

exVars == <<extractors, extractorsMu, extractFns, exCalls, exHist>>

\* Parse calls that run at the same time on one Parser instance.
VARIABLES
    ccMem,      \* the value of every variable of the calls and of the Parser
    ccCalls,    \* per call: its input, position, work list and result
    ccLog       \* history: which call read and wrote which variable

ccVars == <<ccMem, ccCalls, ccLog>>

vars == <<fbVars, epVars, rgVars, exVars, ccVars>>

NumGoroutines == 2
Goroutines == 1..NumGoroutines

\* calls the goroutines make in all
MaxCalls == 3

\* format names as callers write them, and the keys of the map
FormatNames == {<<"e", "p", "u", "b">>, <<"E", "P", "U", "B">>, <<"f", "b", "2">>}
FormatKeys == {ToLower(f) : f \in FormatNames}

\* a Parser value is named by the Register call that passed it; nil is <<>>
NoParser == <<>>

\* an RWMutex nobody holds
FreeMutex == [writer |-> 0, readers |-> {}]

NoResult == [parser |-> NoParser, err |-> "pending", formats |-> {}]

IdleCall == [pc |-> "idle", op |-> "none", format |-> <<>>, parser |-> NoParser,
             calls |-> 0, floor |-> 0, widx |-> 0, result |-> NoResult]

ZeroRgHist == [writes |-> [k \in FormatKeys |-> <<>>], returned |-> [k \in FormatKeys |-> 0],
               started |-> 0]

\* the formats of the fast extractors, as detectFormat names them
ExFormats == {"epub", "fb2"}

\* the six function variables of a format: cover, coverReader, annotation,
\* annotationReader, metadata, metadataReader
FnSlots == 1..6

\* a FastExtractor or an extraction function is named by the call that
\* registered it; nil is <<>>
NoExtractor == <<>>

IdleExCall == [pc |-> "idle", op |-> "none", format |-> "", slot |-> 0,
               fn |-> NoExtractor, calls |-> 0, seen |-> NoExtractor,
               err |-> "pending", partial |-> FALSE]

\* no goroutine registers or extracts
ExIdle ==
    /\ extractors = [f \in ExFormats |-> NoExtractor]
    /\ extractorsMu = FreeMutex
    /\ extractFns = [f \in ExFormats |-> [k \in FnSlots |-> NoExtractor]]
    /\ exCalls = <<>>
    /\ exHist = [started |-> 0]

\* no goroutine uses the registry
RgIdle ==
    /\ parsers = [k \in FormatKeys |-> NoParser]
    /\ registryMutex = FreeMutex
    /\ rgCalls = <<>>
    /\ rgHist = ZeroRgHist

ParseCalls == {1, 2}

\* where a variable lives: a field of the Parser instance is one location
\* for all calls, a variable declared in a function body is one per call
FieldOf(name) == <<0, name>>
LocalOf(t, name) == <<t, name>>

\* a variant that keeps the chapter counter in the Parser
ChapterNumAtParser(t) == FieldOf("chapterNum")

\* chapterNum := 1 in extractContent
ChapterNumAt(t) == LocalOf(t, "chapterNum")

\* content := parser.Content{...}, chapters := make(...)
ChaptersAt(t) == LocalOf(t, "chapters")

\* htmlCache := make(map[string]string)
HtmlCacheAt(t) == LocalOf(t, "htmlCache")

CcLocations ==
    {FieldOf("TOCMaxDepth"), FieldOf("ParseNotes"), FieldOf("chapterNum")}
    \cup {LocalOf(t, n) : t \in ParseCalls, n \in {"chapterNum", "chapters", "htmlCache"}}

IdleParse == [input |-> [kind |-> "none"], pc |-> "idle", work |-> <<>>, i |-> 0,
              result |-> <<>>]

CcIdle ==
    /\ ccMem = [l \in CcLocations |-> <<>>]
    /\ ccCalls = [t \in ParseCalls |-> IdleParse]
    /\ ccLog = {}


ZeroPkg == [Titles |-> <<>>, Languages |-> <<>>, Items |-> <<>>, SpineTOC |-> <<>>,
            ItemRefs |-> <<>>]

\* what ExtractCoverOnly returned, before it has
NoFast == [data |-> <<>>, type |-> "", err |-> "pending"]

ZeroIO == [log |-> <<>>, deferred |-> <<>>, fast |-> NoFast, spine |-> FALSE]

\* no EPUB call is under way
EpIdle ==
    /\ epZip = <<>>
    /\ epPc = "idle"
    /\ epPkg = ZeroPkg
    /\ epBase = <<>>
    /\ epTocIDs = <<>>
    /\ epEntries = <<>>
    /\ epResults = <<>>
    /\ epTraces = <<>>
    /\ epIO = ZeroIO

\* a *parser.Book is a sequence of at most one Book; nil is the empty one
NoBook == <<>>
NoError == "nil"
NotReturned == [book |-> <<>>, err |-> "pending"]

ZeroDoc == [BookTitle |-> <<>>, SeqNumber |-> <<>>, Lang |-> <<>>, secs |-> <<>>,
            Bodies |-> <<>>]
\* no metadata-only extraction has been made
NoMetadataOnly == [metadata |-> <<>>, err |-> "pending"]

ZeroHist == [decodes |-> 0, sanitizes |-> 0, first |-> "none", second |-> "none",
             input2 |-> <<>>, steps |-> <<>>, readers |-> <<>>,
             log |-> <<>>, deferred |-> <<>>, counts |-> NoCounts,
             again |-> <<>>, fast |-> NoMetadataOnly]

\* encoding/xml in non-strict mode rejects an illegal character, a byte
\* sequence that is not UTF-8 and a '<' that opens no well-formed element; a
\* '&' that begins no entity is passed through
XMLDecodable(run) == \A k \in 1..Len(run) : run[k] \notin {CTL, HIBYTE, "<"}

\* the switch of charsetReader on the lower-cased label; iana is what the
\* registry answers for the label when the default branch asks it
CharsetSwitchFailUnknown(lower, iana) ==
    IF lower = <<"w", "i", "n", "d", "o", "w", "s", "-", "1", "2", "5", "1">>
    THEN [reader |-> "windows-1251", err |-> "nil"] ELSE
    IF lower = <<"w", "i", "n", "d", "o", "w", "s", "-", "1", "2", "5", "2">>
    THEN [reader |-> "windows-1252", err |-> "nil"] ELSE
    IF lower \in {<<"i", "s", "o", "-", "8", "8", "5", "9", "-", "1">>, <<"l", "a", "t", "i", "n", "1">>}
    THEN [reader |-> "iso-8859-1", err |-> "nil"] ELSE
    IF lower = <<"k", "o", "i", "8", "-", "r">>
    THEN [reader |-> "koi8-r", err |-> "nil"] ELSE
    IF lower = <<"k", "o", "i", "8", "-", "u">>
    THEN [reader |-> "koi8-u", err |-> "nil"] ELSE
    IF lower \in {<<"u", "t", "f", "-", "8">>, <<>>}
    THEN [reader |-> "pass", err |-> "nil"] ELSE
    IF lower \in {<<"u", "t", "f", "-", "1", "6">>, <<"u", "t", "f", "-", "1", "6", "l", "e">>}
    THEN [reader |-> "utf-16le", err |-> "nil"] ELSE
    IF lower = <<"u", "t", "f", "-", "1", "6", "b", "e">>
    THEN [reader |-> "utf-16be", err |-> "nil"] ELSE
    IF iana = "err" THEN [reader |-> "none", err |-> "unsupported charset"] ELSE
    IF iana = "nil" THEN [reader |-> "pass", err |-> "nil"] ELSE
    [reader |-> "iana", err |-> "nil"]

CharsetSwitch(lower, iana) ==
    IF lower = <<"w", "i", "n", "d", "o", "w", "s", "-", "1", "2", "5", "1">>
    THEN [reader |-> "windows-1251", err |-> "nil"] ELSE
    IF lower = <<"w", "i", "n", "d", "o", "w", "s", "-", "1", "2", "5", "2">>
    THEN [reader |-> "windows-1252", err |-> "nil"] ELSE
    IF lower \in {<<"i", "s", "o", "-", "8", "8", "5", "9", "-", "1">>, <<"l", "a", "t", "i", "n", "1">>}
    THEN [reader |-> "iso-8859-1", err |-> "nil"] ELSE
    IF lower = <<"k", "o", "i", "8", "-", "r">>
    THEN [reader |-> "koi8-r", err |-> "nil"] ELSE
    IF lower = <<"k", "o", "i", "8", "-", "u">>
    THEN [reader |-> "koi8-u", err |-> "nil"] ELSE
    IF lower \in {<<"u", "t", "f", "-", "8">>, <<>>}
    THEN [reader |-> "pass", err |-> "nil"] ELSE
    IF lower \in {<<"u", "t", "f", "-", "1", "6">>, <<"u", "t", "f", "-", "1", "6", "l", "e">>}
    THEN [reader |-> "utf-16le", err |-> "nil"] ELSE
    IF lower = <<"u", "t", "f", "-", "1", "6", "b", "e">>
    THEN [reader |-> "utf-16be", err |-> "nil"] ELSE
    IF iana = "err" THEN [reader |-> "pass", err |-> "nil"] ELSE
    IF iana = "nil" THEN [reader |-> "pass", err |-> "nil"] ELSE
    [reader |-> "iana", err |-> "nil"]

charsetReader(charset, iana) == CharsetSwitch(ToLower(charset), iana)

\* encoding/xml calls Decoder.CharsetReader for a declared encoding other
\* than UTF-8 in any letter case; no declaration gives the empty label
CallsCharsetReader(charset) == charset # <<>> /\ ToLower(charset) # <<"u", "t", "f", "-", "8">>

\* what the reader returned by charsetReader makes of one byte
TranscodeByte(reader, c) ==
    IF c # HIBYTE \/ reader = "pass" THEN c
    ELSE IF reader \in {"windows-1252", "iso-8859-1"} THEN LATIN
    ELSE CYR

Transcode(reader, run) == [k \in 1..Len(run) |-> TranscodeByte(reader, run[k])]

\* the reader the decoder of d reads through, "none" where it asks for none
ReaderOf(d) ==
    IF CallsCharsetReader(d.charset) THEN charsetReader(d.charset, d.iana)
    ELSE [reader |-> "none", err |-> "nil"]

\* what the calls of charsetReader in one decode of d returned
CharsetReaderCalls(d) ==
    IF CallsCharsetReader(d.charset) THEN <<charsetReader(d.charset, d.iana)>> ELSE <<>>

\* the text the XML decoder sees: data read as UTF-16 is no XML any more
Transcoded(d) ==
    IF ReaderOf(d).reader = "none" THEN d.run ELSE Transcode(ReaderOf(d).reader, d.run)

DecodeOK(d) ==
    /\ d.wf
    /\ ReaderOf(d).err = "nil"
    /\ ReaderOf(d).reader \notin {"utf-16le", "utf-16be"}
    /\ XMLDecodable(Transcoded(d))

\* decoder.Decode(&fb2): fields are set and slices appended to as elements
\* are read; on an error what was read before it stays in fb2
DecodeInto(fb2, d) ==
    [BookTitle |-> d.BookTitle,
     SeqNumber |-> d.SeqNumber,
     Lang |-> d.Lang,
     secs |-> d.secs,
     Bodies |-> fb2.Bodies \o (IF DecodeOK(d) THEN d.Bodies
                               ELSE Slice(d.Bodies, 1, d.errAfter))]

HasSuffixFold(s, suffix) ==
    Len(s) >= Len(suffix) /\ HasPrefixAt(ToLower(s), Len(s) - Len(suffix) + 1, suffix, FALSE)

\* f.Open() of this entry fails
OpenFails(f) == f.kind = "damaged" /\ f.io = "open"

\* io.ReadAll of this entry fails
ReadFails(f) == f.kind = "damaged" /\ f.io = "read"

\* a handle is opened, a handle is closed
OpenEvent(name) == [op |-> "open", name |-> name]
CloseEvent(name) == [op |-> "close", name |-> name]

\* the deferred Close calls run when the function returns, the last first
Deferred(names) == [k \in 1..Len(names) |-> CloseEvent(names[Len(names) + 1 - k])]

DotFb2 == <<".", "f", "b", "2">>

\* index of the first entry whose lower-cased name ends in ".fb2", 0 if none
FirstFB2Entry(files) ==
    LET hits == {k \in 1..Len(files) : HasSuffixFold(files[k].Name, DotFb2)}
    IN  IF hits = {} THEN 0 ELSE MinOf(hits)

InitFB2 ==
    /\ fbInput \in FB2Inputs
    /\ fbCfg \in FB2Configs
    /\ fbInput \notin ForestDocs => fbCfg.TOCMaxDepth = 3
    /\ fbInput \in ForestDocs => ~fbCfg.ParseNotes
    /\ fbPc = "Parse"
    /\ fbData = fbInput
    /\ fbDoc = ZeroDoc
    /\ fbSan = "none"
    /\ fbHist = ZeroHist
    /\ fbResult = NotReturned
    /\ fbTrace = <<>>
    /\ EpIdle
    /\ RgIdle
    /\ ExIdle
    /\ CcIdle

\* the path of the file given to Parse
FilePath == <<"b", "o", "o", "k">>

\* the function returns: its deferred Close calls run
FbReturned(hist) ==
    [hist EXCEPT !.log = @ \o Deferred(hist.deferred), !.deferred = <<>>]

\* Parse: os.Open(filePath), defer f.Close(), io.ReadAll(f), parseFromBytes;
\* os.Open or io.ReadAll may fail, and Parse then returns before
\* parseFromBytes is called ("unread")
FbParse ==
    /\ fbPc = "Parse"
    /\ \E io \in {"ok", "open", "read"} :
         IF io = "open"
         THEN /\ fbResult' = [book |-> NoBook, err |-> "failed to open file"]
              /\ fbPc' = "unread"
              /\ UNCHANGED fbHist
         ELSE IF io = "read"
         THEN /\ fbResult' = [book |-> NoBook, err |-> "failed to read FB2"]
              /\ fbPc' = "unread"
              /\ fbHist' = FbReturned([fbHist EXCEPT
                                !.log = Append(@, OpenEvent(FilePath)),
                                !.deferred = Append(@, FilePath)])
         ELSE /\ fbPc' = "parseFromBytes"
              /\ fbHist' = [fbHist EXCEPT !.log = Append(@, OpenEvent(FilePath)),
                                          !.deferred = Append(@, FilePath)]
              /\ UNCHANGED fbResult
    /\ UNCHANGED <<fbInput, fbCfg, fbData, fbDoc, fbSan, fbTrace>>
    /\ UNCHANGED <<epVars, rgVars, exVars, ccVars>>

\* parseFromBytes, ZIP signature found: hand over to parseFromZip
FbDispatchZip ==
    /\ fbPc = "parseFromBytes"
    /\ fbData.kind = "zip"
    /\ fbPc' = "parseFromZip"
    /\ UNCHANGED <<fbInput, fbCfg, fbData, fbDoc, fbSan, fbHist, fbResult, fbTrace>>
    /\ UNCHANGED <<epVars, rgVars, exVars, ccVars>>

\* parseFromZip: no .fb2 entry is an error; else parseFromBytes on its content
FbParseFromZip ==
    /\ fbPc = "parseFromZip"
    /\ LET k == FirstFB2Entry(fbData.files)
       IN  IF k = 0
           THEN /\ fbResult' = [book |-> NoBook, err |-> "no FB2 file found in archive"]
                /\ fbPc' = "done"
                /\ fbHist' = FbReturned(fbHist)
                /\ UNCHANGED fbData
           ELSE IF OpenFails(fbData.files[k].content)
           THEN /\ fbResult' = [book |-> NoBook, err |-> "failed to open FB2 file"]
                /\ fbPc' = "done"
                /\ fbHist' = FbReturned(fbHist)
                /\ UNCHANGED fbData
           ELSE IF ReadFails(fbData.files[k].content)
           THEN /\ fbResult' = [book |-> NoBook, err |-> "failed to read FB2 file"]
                /\ fbPc' = "done"
                /\ fbHist' = FbReturned([fbHist EXCEPT
                                  !.log = Append(@, OpenEvent(fbData.files[k].Name)),
                                  !.deferred = Append(@, fbData.files[k].Name)])
                /\ UNCHANGED fbData
           ELSE /\ fbData' = fbData.files[k].content
                /\ fbPc' = "parseFromBytes"
                /\ fbHist' = [fbHist EXCEPT
                                  !.log = Append(@, OpenEvent(fbData.files[k].Name)),
                                  !.deferred = Append(@, fbData.files[k].Name)]
                /\ UNCHANGED fbResult
    /\ UNCHANGED <<fbInput, fbCfg, fbDoc, fbSan, fbTrace>>
    /\ UNCHANGED <<epVars, rgVars, exVars, ccVars>>

\* a variant of the first decode that returns its error without a retry
FbDecodeFirstNoRetry ==
    /\ fbPc = "parseFromBytes"
    /\ fbData.kind = "xml"
    /\ fbDoc' = DecodeInto(ZeroDoc, fbData)
    /\ fbHist' = [(IF DecodeOK(fbData) THEN fbHist ELSE FbReturned(fbHist))
                     EXCEPT !.decodes = @ + 1,
                            !.first = IF DecodeOK(fbData) THEN "ok" ELSE "fail",
                            !.readers = @ \o CharsetReaderCalls(fbData)]
    /\ IF DecodeOK(fbData)
       THEN fbPc' = "extract" /\ UNCHANGED fbResult
       ELSE /\ fbPc' = "done"
            /\ fbResult' = [book |-> NoBook, err |-> "failed to parse FB2"]
    /\ UNCHANGED <<fbInput, fbCfg, fbData, fbSan, fbTrace>>
    /\ UNCHANGED <<epVars, rgVars, exVars, ccVars>>

\* parseFromBytes: the first decode, of the data as given
FbDecodeFirst ==
    /\ fbPc = "parseFromBytes"
    /\ fbData.kind = "xml"
    /\ fbDoc' = DecodeInto(ZeroDoc, fbData)
    /\ fbHist' = [fbHist EXCEPT !.decodes = @ + 1,
                                !.first = IF DecodeOK(fbData) THEN "ok" ELSE "fail",
                                !.readers = @ \o CharsetReaderCalls(fbData)]
    /\ fbPc' = IF DecodeOK(fbData) THEN "extract" ELSE "sanitize"
    /\ UNCHANGED <<fbInput, fbCfg, fbData, fbSan, fbResult, fbTrace>>
    /\ UNCHANGED <<epVars, rgVars, exVars, ccVars>>

\* the first decode failed: sanitizedData := sanitizeFB2XML(data)
FbSanitize ==
    /\ fbPc = "sanitize"
    /\ fbSan' = [fbData EXCEPT !.run = sanitizeFB2XML(@)]
    /\ fbHist' = [fbHist EXCEPT !.sanitizes = @ + 1,
                                !.steps = SanitizeSteps(fbData.run)]
    /\ fbPc' = "decode2"
    /\ UNCHANGED <<fbInput, fbCfg, fbData, fbDoc, fbResult, fbTrace>>
    /\ UNCHANGED <<epVars, rgVars, exVars, ccVars>>

\* decoder2.Decode(&fb2) on the sanitized data; a second failure is returned
FbDecodeSecond ==
    /\ fbPc = "decode2"
    /\ fbDoc' = DecodeInto(fbDoc, fbSan)
    /\ fbHist' = [(IF DecodeOK(fbSan) THEN fbHist ELSE FbReturned(fbHist))
                     EXCEPT !.decodes = @ + 1,
                                !.second = IF DecodeOK(fbSan) THEN "ok" ELSE "fail",
                                !.input2 = fbSan.run,
                                !.readers = @ \o CharsetReaderCalls(fbSan)]
    /\ IF DecodeOK(fbSan)
       THEN fbPc' = "extract" /\ UNCHANGED fbResult
       ELSE /\ fbPc' = "done"
            /\ fbResult' = [book |-> NoBook, err |-> "failed to parse FB2"]
    /\ UNCHANGED <<fbInput, fbCfg, fbData, fbSan, fbTrace>>
    /\ UNCHANGED <<epVars, rgVars, exVars, ccVars>>

\* book.Metadata = extractMetadata(fb2); book.Content = p.extractContent(fb2)
FbReturnBook(st) ==
    /\ fbResult' = [book |-> <<[Metadata |-> extractMetadataFB2(fbDoc),
                                Content |-> st.chapters]>>,
                    err |-> NoError]
    /\ fbTrace' = st.trace

FbExtract ==
    /\ fbPc = "extract"
    /\ FbReturnBook(extractContentFB2(fbCfg, fbDoc))
    /\ fbPc' = "done"
    /\ fbHist' = FbReturned(fbHist)
    /\ UNCHANGED <<fbInput, fbCfg, fbData, fbDoc, fbSan>>
    /\ UNCHANGED <<epVars, rgVars, exVars, ccVars>>

\* the caller asks the returned Book for its totals and its elements for
\* their counts
FbTotals ==
    /\ fbPc \in {"done", "built"}
    /\ fbResult.book # NoBook
    /\ fbHist.counts = NoCounts
    /\ fbHist' = [fbHist EXCEPT !.counts = CountsOf(fbResult.book[1].Content)]
    /\ UNCHANGED <<fbInput, fbCfg, fbPc, fbData, fbDoc, fbSan, fbResult, fbTrace>>
    /\ UNCHANGED <<epVars, rgVars, exVars, ccVars>>

\* extractMetadataFromBytes: one decode of the bytes as given, then
\* extractMetadata
extractMetadataFromBytes(data) ==
    IF data.kind = "xml" /\ DecodeOK(data)
    THEN [metadata |-> <<extractMetadataFB2(DecodeInto(ZeroDoc, data))>>, err |-> NoError]
    ELSE [metadata |-> <<>>, err |-> "failed to parse FB2"]

\* ExtractMetadataOnly(filePath), called on the file that Parse was given
FbExtractMetadataOnly ==
    /\ fbPc = "done"
    /\ fbHist.fast = NoMetadataOnly
    /\ \E io \in {"ok", "open", "read"} :
         fbHist' = [fbHist EXCEPT
            !.log = IF io = "open" THEN @
                    ELSE @ \o <<OpenEvent(FilePath), CloseEvent(FilePath)>>,
            !.fast = IF io = "open"
                     THEN [metadata |-> <<>>, err |-> "failed to open file"]
                     ELSE IF io = "read"
                     THEN [metadata |-> <<>>, err |-> "failed to read FB2"]
                     ELSE extractMetadataFromBytes(fbInput)]
    /\ UNCHANGED <<fbInput, fbCfg, fbPc, fbData, fbDoc, fbSan, fbResult, fbTrace>>
    /\ UNCHANGED <<epVars, rgVars, exVars, ccVars>>

NextFB2 ==
    \/ FbParse
    \/ FbDispatchZip
    \/ FbParseFromZip
    \/ FbDecodeFirst
    \/ FbSanitize
    \/ FbDecodeSecond
    \/ FbExtract
    \/ FbTotals
    \/ FbExtractMetadataOnly

SpecFB2 == InitFB2 /\ [][NextFB2]_vars

\* ------------------------------------------------------------------------
\* formats/epub/content.go: anchors, titles and elements of a chapter file
\* ------------------------------------------------------------------------

AttrID == <<"i", "d">>
AttrName == <<"n", "a", "m", "e">>
DoubleQuote == "\""
SingleQuote == "'"
LtTag == "<"
GtTag == ">"

MaxOf(S) == CHOOSE x \in S : \A y \in S : x >= y

\* \s*=\s*"anchor"[^>]*> anchored at k (the index after the attribute name)
AnchorValueAt(s, k, quote, anchor) ==
    /\ SkipReSpace(s, k) <= Len(s)
    /\ s[SkipReSpace(s, k)] = "="
    /\ HasPrefixAt(s, SkipReSpace(s, SkipReSpace(s, k) + 1),
                   <<quote>> \o anchor \o <<quote>>, TRUE)
    /\ IndexOfChar(s, GtTag, SkipReSpace(s, SkipReSpace(s, k) + 1) + Len(anchor) + 2) > 0

\* `(?is)<[^>]*\sattr\s*=\s*"anchor"[^>]*>` anchored at i; [^>]* may run over
\* any character but '>', a '<' included
AnchorMatchAt(s, i, attr, quote, anchor) ==
    /\ s[i] = LtTag
    /\ \E j \in (i + 1)..Len(s) :
          /\ IsReSpace(s[j])
          /\ \A m \in (i + 1)..(j - 1) : s[m] # GtTag
          /\ HasPrefixAt(s, j + 1, attr, TRUE)
          /\ AnchorValueAt(s, j + 1 + Len(attr), quote, anchor)

\* FindStringIndex: the 1-based index of the leftmost match, 0 if none
AnchorIndex(s, attr, quote, anchor) ==
    IF \E i \in 1..Len(s) : AnchorMatchAt(s, i, attr, quote, anchor)
    THEN MinOf({i \in 1..Len(s) : AnchorMatchAt(s, i, attr, quote, anchor)})
    ELSE 0

\* the byte offset (0-based) where the anchor's tag starts; 0 when the anchor
\* is empty or is not found
findAnchorStart(htmlContent, anchor) ==
    IF anchor = <<>> THEN 0
    ELSE IF AnchorIndex(htmlContent, AttrID, DoubleQuote, anchor) > 0
         THEN AnchorIndex(htmlContent, AttrID, DoubleQuote, anchor) - 1
    ELSE IF AnchorIndex(htmlContent, AttrName, DoubleQuote, anchor) > 0
         THEN AnchorIndex(htmlContent, AttrName, DoubleQuote, anchor) - 1
    ELSE IF AnchorIndex(htmlContent, AttrID, SingleQuote, anchor) > 0
         THEN AnchorIndex(htmlContent, AttrID, SingleQuote, anchor) - 1
    ELSE IF AnchorIndex(htmlContent, AttrName, SingleQuote, anchor) > 0
         THEN AnchorIndex(htmlContent, AttrName, SingleQuote, anchor) - 1
    ELSE 0

\* one match of `(?is)<name[^>]*>(.*?)</name>` that begins at i and ends at e
BlockMatch(s, i, e, prefix, close) ==
    [whole |-> Slice(s, i, e),
     inner |-> Slice(s, TagOpenEnd(s, i, prefix) + 1, e - Len(close))]

RECURSIVE FindBlocks(_, _, _, _)
\* FindAllStringSubmatch for `(?is)<name[^>]*>(.*?)</name>`, scanning from i
FindBlocks(s, i, prefix, close) ==
    IF i > Len(s) THEN <<>>
    ELSE IF BlockEnd(s, i, prefix, close, TRUE) > 0
         THEN <<BlockMatch(s, i, BlockEnd(s, i, prefix, close, TRUE), prefix, close)>>
              \o FindBlocks(s, BlockEnd(s, i, prefix, close, TRUE) + 1, prefix, close)
         ELSE FindBlocks(s, i + 1, prefix, close)

LtH(level) == <<"<", "h", DigitChars[level + 1]>>
EndH(level) == <<"<", "/", "h", DigitChars[level + 1], ">">>

\* FindStringSubmatch: the first match, as a sequence of at most one match
FirstBlock(s, prefix, close) ==
    IF FindBlocks(s, 1, prefix, close) = <<>> THEN <<>>
    ELSE <<FindBlocks(s, 1, prefix, close)[1]>>

\* the title a pattern gives: the trimmed text of its first match, empty when
\* there is no match
TitleFrom(s, prefix, close) ==
    IF FirstBlock(s, prefix, close) = <<>> THEN <<>>
    ELSE TrimSpace(stripHTMLTags(FirstBlock(s, prefix, close)[1].inner))

extractChapterTitle(htmlContent, fallback) ==
    IF TitleFrom(htmlContent, LtH(1), EndH(1)) # <<>>
    THEN TitleFrom(htmlContent, LtH(1), EndH(1))
    ELSE IF TitleFrom(htmlContent, LtH(2), EndH(2)) # <<>>
    THEN TitleFrom(htmlContent, LtH(2), EndH(2))
    ELSE IF TitleFrom(htmlContent, LtTitle, EndTitle) # <<>>
    THEN TitleFrom(htmlContent, LtTitle, EndTitle)
    ELSE fallback

RECURSIVE HeadingsFrom(_, _, _)
\* a variant of HeadingsFrom that numbers the heading levels from 0
HeadingsFromZeroBased(matches, k, level) ==
    IF k > Len(matches) THEN <<>>
    ELSE (IF TrimSpace(stripHTMLTags(matches[k].inner)) # <<>>
          THEN <<[type |-> "Heading",
                  Text |-> TrimSpace(stripHTMLTags(matches[k].inner)),
                  Level |-> level - 1]>>
          ELSE <<>>)
         \o HeadingsFrom(matches, k + 1, level)

\* the Heading elements of the matches of one heading pattern
HeadingsFrom(matches, k, level) ==
    IF k > Len(matches) THEN <<>>
    ELSE (IF TrimSpace(stripHTMLTags(matches[k].inner)) # <<>>
          THEN <<[type |-> "Heading",
                  Text |-> TrimSpace(stripHTMLTags(matches[k].inner)),
                  Level |-> level]>>
          ELSE <<>>)
         \o HeadingsFrom(matches, k + 1, level)

RECURSIVE AllHeadings(_, _)
AllHeadings(s, level) ==
    IF level > 6 THEN <<>>
    ELSE HeadingsFrom(FindBlocks(s, 1, LtH(level), EndH(level)), 1, level)
         \o AllHeadings(s, level + 1)

RECURSIVE ParagraphsFrom(_, _)
\* the Paragraph elements of the matches of `(?is)<p[^>]*>(.*?)</p>`
ParagraphsFrom(matches, k) ==
    IF k > Len(matches) THEN <<>>
    ELSE (IF TrimSpace(stripHTMLTags(matches[k].inner)) # <<>>
          THEN <<[type |-> "Paragraph",
                  Text |-> TrimSpace(stripHTMLTags(matches[k].inner)),
                  HTML |-> matches[k].whole]>>
          ELSE <<>>)
         \o ParagraphsFrom(matches, k + 1)

\* htmlContent with the head, script and style blocks removed
WithoutHead(htmlContent) ==
    ReplaceBlocks(
        ReplaceBlocks(
            ReplaceBlocks(htmlContent, 1, LtHead, EndHead, TRUE, <<>>),
            1, LtScript, EndScript, TRUE, <<>>),
        1, LtStyle, EndStyle, TRUE, <<>>)

\* a variant of ElementsOrWhole that keeps the white space around the text
ElementsOrWholeUntrimmed(body, elements) ==
    IF Len(elements) > 0 THEN elements
    ELSE IF TrimSpace(stripHTMLTags(body)) # <<>>
         THEN <<[type |-> "Paragraph",
                 Text |-> stripHTMLTags(body),
                 HTML |-> body]>>
         ELSE <<>>

\* the end of htmlToElements: the elements found, or the whole content as one
\* paragraph when none was found
ElementsOrWhole(body, elements) ==
    IF Len(elements) > 0 THEN elements
    ELSE IF TrimSpace(stripHTMLTags(body)) # <<>>
         THEN <<[type |-> "Paragraph",
                 Text |-> TrimSpace(stripHTMLTags(body)),
                 HTML |-> body]>>
         ELSE <<>>

\* a variant of StructuredElements that puts the paragraphs first
StructuredElementsParagraphsFirst(body) ==
    ParagraphsFrom(FindBlocks(body, 1, LtP, EndP), 1) \o AllHeadings(body, 1)

StructuredElements(body) ==
    AllHeadings(body, 1) \o ParagraphsFrom(FindBlocks(body, 1, LtP, EndP), 1)

HtmlBodyElements(body) == ElementsOrWhole(body, StructuredElements(body))

htmlToElements(htmlContent) == HtmlBodyElements(WithoutHead(htmlContent))

\* ------------------------------------------------------------------------
\* formats/epub/toc.go: the table of contents
\* ------------------------------------------------------------------------

Dot == <<".">>
Slash == <<"/">>
Href == <<"h", "r", "e", "f">>
NavWord == <<"n", "a", "v">>
MediaNCX == "application/x-dtbncx+xml"
MediaXHTML == "application/xhtml+xml"

\* href[:i] for the first '?', the whole href if there is none
CutQuery(href) ==
    IF IndexOfChar(href, "?", 1) > 0 THEN Slice(href, 1, IndexOfChar(href, "?", 1) - 1)
    ELSE href

\* filepath.ToSlash(filepath.Clean(filepath.Join(baseDir, name))) for a base
\* directory and a name without '/', "." or ".." segments
JoinClean(baseDir, name) ==
    IF name = <<>> THEN (IF baseDir = <<>> THEN Dot ELSE baseDir)
    ELSE IF baseDir = <<>> \/ baseDir = Dot THEN name
    ELSE baseDir \o Slash \o name

normalizeEPUBPath(baseDir, href) ==
    IF TrimSpace(href) = <<>> THEN <<>>
    ELSE JoinClean(baseDir, CutQuery(TrimSpace(href)))

\* strings.SplitN(href, "#", 2) on the trimmed href
SplitTrimmed(href) ==
    IF href = <<>> THEN [path |-> <<>>, anchor |-> <<>>]
    ELSE IF IndexOfChar(href, "#", 1) = 0 THEN [path |-> href, anchor |-> <<>>]
    ELSE [path |-> Slice(href, 1, IndexOfChar(href, "#", 1) - 1),
          anchor |-> TrimSpace(Slice(href, IndexOfChar(href, "#", 1) + 1, Len(href)))]

splitEPUBHref(href) == SplitTrimmed(TrimSpace(href))

TOCEntry(title, src, tocBaseDir) ==
    [Title |-> title,
     Path |-> normalizeEPUBPath(tocBaseDir, splitEPUBHref(src).path),
     Anchor |-> splitEPUBHref(src).anchor]

\* the entry of one navPoint, if its title and src are not blank
NavPointEntry(title, src, tocBaseDir) ==
    IF title # <<>> /\ src # <<>> THEN <<TOCEntry(title, src, tocBaseDir)>> ELSE <<>>

RECURSIVE collectNCXTOCEntries(_, _, _)
\* the entries of points[k..], each navPoint before its nested navPoints
collectNCXTOCEntries(points, k, tocBaseDir) ==
    IF k > Len(points) THEN <<>>
    ELSE NavPointEntry(TrimSpace(stripHTMLTags(points[k].Text)),
                       TrimSpace(points[k].Src), tocBaseDir)
         \o collectNCXTOCEntries(points[k].NavPoints, 1, tocBaseDir)
         \o collectNCXTOCEntries(points, k + 1, tocBaseDir)

\* xml.Unmarshal of the NCX file: a document that is not well-formed is an
\* error, a file without a navMap has no navPoints; both give no entries
parseNCXTOCEntries(f, tocBaseDir) ==
    IF f.kind = "ncx" /\ f.wf THEN collectNCXTOCEntries(f.NavPoints, 1, tocBaseDir)
    ELSE <<>>

\* `\s*=\s*"([^"]+)"[^>]*>(.*?)</a>` anchored at k, the index after "href":
\* the indices of the opening quote, the closing quote, the '>' and the
\* "</a>" of the match, or <<>> if there is none
NavTail(s, eq) ==
    IF eq > Len(s) \/ s[eq] # "=" THEN <<>>
    ELSE IF SkipReSpace(s, eq + 1) > Len(s) \/ s[SkipReSpace(s, eq + 1)] # DoubleQuote THEN <<>>
    ELSE IF IndexOfChar(s, DoubleQuote, SkipReSpace(s, eq + 1) + 1)
               < SkipReSpace(s, eq + 1) + 2 THEN <<>>
    ELSE IF IndexOfChar(s, GtTag,
               IndexOfChar(s, DoubleQuote, SkipReSpace(s, eq + 1) + 1) + 1) = 0 THEN <<>>
    ELSE IF IndexOfLit(s, EndA, IndexOfChar(s, GtTag,
               IndexOfChar(s, DoubleQuote, SkipReSpace(s, eq + 1) + 1) + 1) + 1, TRUE) = 0
         THEN <<>>
    ELSE <<SkipReSpace(s, eq + 1),
           IndexOfChar(s, DoubleQuote, SkipReSpace(s, eq + 1) + 1),
           IndexOfChar(s, GtTag, IndexOfChar(s, DoubleQuote, SkipReSpace(s, eq + 1) + 1) + 1),
           IndexOfLit(s, EndA, IndexOfChar(s, GtTag,
               IndexOfChar(s, DoubleQuote, SkipReSpace(s, eq + 1) + 1) + 1) + 1, TRUE)>>

\* the places of "href" that `<a[^>]*href...` anchored at i can use
NavHrefPlaces(s, i) ==
    {h \in (i + 2)..Len(s) :
        /\ HasPrefixAt(s, h, Href, TRUE)
        /\ \A m \in (i + 2)..(h - 1) : s[m] # GtTag
        /\ NavTail(s, SkipReSpace(s, h + Len(Href))) # <<>>}

\* `(?is)<a[^>]*href\s*=\s*"([^"]+)"[^>]*>(.*?)</a>` anchored at i: the
\* indices NavTail gives for the match, <<>> if none; the greedy [^>]* takes
\* the last usable "href"
NavMatchAt(s, i) ==
    IF HasPrefixAt(s, i, LtA, TRUE) /\ NavHrefPlaces(s, i) # {}
    THEN NavTail(s, SkipReSpace(s, MaxOf(NavHrefPlaces(s, i)) + Len(Href)))
    ELSE <<>>

\* the entry of one match m of the pattern, if its href and title are not blank
NavMatchEntry(s, m, tocBaseDir) ==
    IF TrimSpace(Slice(s, m[1] + 1, m[2] - 1)) = <<>>
       \/ TrimSpace(stripHTMLTags(Slice(s, m[3] + 1, m[4] - 1))) = <<>>
    THEN <<>>
    ELSE <<TOCEntry(TrimSpace(stripHTMLTags(Slice(s, m[3] + 1, m[4] - 1))),
                    TrimSpace(Slice(s, m[1] + 1, m[2] - 1)), tocBaseDir)>>

RECURSIVE NavEntriesFrom(_, _, _)
NavEntriesFrom(s, i, tocBaseDir) ==
    IF i > Len(s) THEN <<>>
    ELSE IF NavMatchAt(s, i) # <<>>
         THEN NavMatchEntry(s, NavMatchAt(s, i), tocBaseDir)
              \o NavEntriesFrom(s, NavMatchAt(s, i)[4] + Len(EndA), tocBaseDir)
         ELSE NavEntriesFrom(s, i + 1, tocBaseDir)

\* the regular expression runs over the raw bytes of the file
parseNavXHTMLTOCEntries(f, tocBaseDir) ==
    IF f.kind = "text" THEN NavEntriesFrom(f.data, 1, tocBaseDir) ELSE <<>>

\* filepath.Dir of a cleaned path
DirOf(path) ==
    IF \E k \in 1..Len(path) : path[k] = "/"
    THEN Slice(path, 1, MaxOf({k \in 1..Len(path) : path[k] = "/"}) - 1)
    ELSE Dot

\* findFileInZip: the first file of that name, as a sequence of at most one
findFileInZip(zr, name) ==
    IF \E k \in 1..Len(zr) : zr[k].Name = name
    THEN <<zr[MinOf({k \in 1..Len(zr) : zr[k].Name = name})]>>
    ELSE <<>>

\* findFileInZip, Open and io.ReadAll: the file if all three succeed
ReadFile(zr, name) ==
    IF findFileInZip(zr, name) = <<>> THEN <<>>
    ELSE IF OpenFails(findFileInZip(zr, name)[1]) \/ ReadFails(findFileInZip(zr, name)[1])
         THEN <<>>
    ELSE findFileInZip(zr, name)


\* a variant of FileEvents that leaves the handle open when io.ReadAll fails
FileEventsLeakOnReadError(found) ==
    IF found = <<>> \/ OpenFails(found[1]) THEN <<>>
    ELSE IF ReadFails(found[1]) THEN <<OpenEvent(found[1].Name)>>
    ELSE <<OpenEvent(found[1].Name), CloseEvent(found[1].Name)>>

\* the handle of an entry that was looked up: Open, io.ReadAll, then Close,
\* called right away or deferred to the end of the function that opened it
FileEvents(found) ==
    IF found = <<>> \/ OpenFails(found[1]) THEN <<>>
    ELSE <<OpenEvent(found[1].Name), CloseEvent(found[1].Name)>>

\* manifestMap and manifestMediaTypeMap: a later item of the same id
\* overwrites an earlier one
ManifestIDs(items) == {items[k].ID : k \in 1..Len(items)}
ManifestItem(items, id) == items[MaxOf({k \in 1..Len(items) : items[k].ID = id})]

\* the ids the loop over manifestMediaTypeMap appends to tocIDs
MapCandidates(items) ==
    {id \in ManifestIDs(items) :
        \/ ManifestItem(items, id).MediaType = MediaNCX
        \/ /\ ManifestItem(items, id).MediaType = MediaXHTML
           /\ IndexOfLit(ToLower(id), NavWord, 1, FALSE) > 0}

\* the orders in which a range over a Go map can visit the keys S
MapOrders(S) ==
    {o \in [1..Cardinality(S) -> S] : \A a, b \in 1..Cardinality(S) : o[a] = o[b] => a = b}

\* the entries the TOC file gives, by its media type
ParsedTOC(f, mediaType, tocBaseDir) ==
    IF mediaType = MediaNCX THEN parseNCXTOCEntries(f, tocBaseDir)
    ELSE IF mediaType = MediaXHTML THEN parseNavXHTMLTOCEntries(f, tocBaseDir)
    ELSE <<>>

\* one round of the loop over tocIDs: the entries the candidate gives, <<>>
\* when the loop continues with the next candidate
CandidateEntries(zr, packageBaseDir, items, tocID) ==
    IF tocID \notin ManifestIDs(items) THEN <<>>
    ELSE IF findFileInZip(zr, normalizeEPUBPath(packageBaseDir,
                                 ManifestItem(items, tocID).Href)) = <<>> THEN <<>>
    ELSE ParsedTOC(findFileInZip(zr, normalizeEPUBPath(packageBaseDir,
                                 ManifestItem(items, tocID).Href))[1],
                   ManifestItem(items, tocID).MediaType,
                   DirOf(normalizeEPUBPath(packageBaseDir, ManifestItem(items, tocID).Href)))

RECURSIVE extractTOCEntries(_, _, _, _, _)
\* the loop over tocIDs from its k-th candidate: the first candidate that
\* gives an entry decides
extractTOCEntries(zr, packageBaseDir, items, tocIDs, k) ==
    IF k > Len(tocIDs) THEN <<>>
    ELSE IF Len(CandidateEntries(zr, packageBaseDir, items, tocIDs[k])) > 0
         THEN CandidateEntries(zr, packageBaseDir, items, tocIDs[k])
         ELSE extractTOCEntries(zr, packageBaseDir, items, tocIDs, k + 1)

\* the handle of the file of one candidate: parseNCXTOCEntries and
\* parseNavXHTMLTOCEntries open it, a file of another media type is not opened
CandidateEvents(zr, packageBaseDir, items, tocID) ==
    IF tocID \notin ManifestIDs(items) THEN <<>>
    ELSE IF ManifestItem(items, tocID).MediaType \notin {MediaNCX, MediaXHTML} THEN <<>>
    ELSE FileEvents(findFileInZip(zr, normalizeEPUBPath(packageBaseDir,
                                      ManifestItem(items, tocID).Href)))

RECURSIVE TOCEvents(_, _, _, _, _)
\* the handles of the loop over tocIDs from its k-th candidate
TOCEvents(zr, packageBaseDir, items, tocIDs, k) ==
    IF k > Len(tocIDs) THEN <<>>
    ELSE IF Len(CandidateEntries(zr, packageBaseDir, items, tocIDs[k])) > 0
         THEN CandidateEvents(zr, packageBaseDir, items, tocIDs[k])
         ELSE CandidateEvents(zr, packageBaseDir, items, tocIDs[k])
              \o TOCEvents(zr, packageBaseDir, items, tocIDs, k + 1)

\* ------------------------------------------------------------------------
\* formats/epub/content.go: chapters from the table of contents and the spine
\* ------------------------------------------------------------------------

\* a variant of EndOffset that does not compare the files of the two entries
EndOffsetAnyFile(htmlContent, entries, i, start) ==
    IF i + 1 < Len(entries)
       /\ findAnchorStart(htmlContent, entries[i + 2].Anchor) > start
    THEN findAnchorStart(htmlContent, entries[i + 2].Anchor)
    ELSE Len(htmlContent)

\* end as first computed: the next entry's start if it is in the same file
\* and after this entry's start
EndOffset(htmlContent, entries, i, start) ==
    IF i + 1 < Len(entries) /\ entries[i + 2].Path = entries[i + 1].Path
       /\ findAnchorStart(htmlContent, entries[i + 2].Anchor) > start
    THEN findAnchorStart(htmlContent, entries[i + 2].Anchor)
    ELSE Len(htmlContent)

ClampStart(htmlContent, start) ==
    IF start < 0 \/ start >= Len(htmlContent) THEN 0 ELSE start

ClampEnd(htmlContent, start, end) ==
    IF end <= start \/ end > Len(htmlContent) THEN Len(htmlContent) ELSE end

\* a variant of GoSlice that takes start as a 1-based index
GoSliceOneBased(s, start, end) == Slice(s, IF start > 0 THEN start ELSE 1, end)

\* htmlContent[start:end] with Go's 0-based offsets
GoSlice(s, start, end) == Slice(s, start + 1, end)

\* the chapter of entry i (0-based), appended unless the segment is empty
EmitTOCChapter(acc, i, title, segment, start, end) ==
    IF segment = <<>> THEN acc
    ELSE [acc EXCEPT
          !.chapters = Append(acc.chapters,
                          [ID |-> SprintfID("toc-", i + 1),
                           Title |-> extractChapterTitle(segment, TrimSpace(title)),
                           Level |-> 0,
                           Elements |-> htmlToElements(segment)]),
          !.trace = Append(acc.trace,
                          [src |-> "toc", idx |-> i, start |-> start, end |-> end,
                           segment |-> segment])]

\* the body of the loop once the file is read and start and end are computed
SegmentChapter(acc, i, title, htmlContent, start, end) ==
    EmitTOCChapter(acc, i, title,
                   TrimSpace(GoSlice(htmlContent, ClampStart(htmlContent, start),
                                     ClampEnd(htmlContent, ClampStart(htmlContent, start), end))),
                   ClampStart(htmlContent, start),
                   ClampEnd(htmlContent, ClampStart(htmlContent, start), end))

TOCEntryChapter(acc, entries, i, htmlContent) ==
    SegmentChapter(acc, i, entries[i + 1].Title, htmlContent,
                   findAnchorStart(htmlContent, entries[i + 1].Anchor),
                   EndOffset(htmlContent, entries, i,
                             findAnchorStart(htmlContent, entries[i + 1].Anchor)))

\* acc after the lookup of a chapter file gave found and it was read if it
\* could be
Handled(acc, found) == [acc EXCEPT !.handles = @ \o FileEvents(found)]

\* htmlCache[entry.Path] = htmlContent
Cached(acc, path) == [acc EXCEPT !.cache = @ \cup {path}]

RECURSIVE TOCChapters(_, _, _, _)
\* the loop of extractChaptersFromTOC from entry i (0-based)
TOCChapters(zr, entries, i, acc) ==
    IF i >= Len(entries) THEN acc
    ELSE IF entries[i + 1].Path = <<>> \/ TrimSpace(entries[i + 1].Title) = <<>>
         THEN TOCChapters(zr, entries, i + 1, acc)
    ELSE IF entries[i + 1].Path \in acc.cache
         THEN TOCChapters(zr, entries, i + 1,
                 TOCEntryChapter(acc, entries, i, ReadFile(zr, entries[i + 1].Path)[1].data))
    ELSE IF ReadFile(zr, entries[i + 1].Path) = <<>>
         THEN TOCChapters(zr, entries, i + 1,
                 Handled(acc, findFileInZip(zr, entries[i + 1].Path)))
    ELSE TOCChapters(zr, entries, i + 1,
            TOCEntryChapter(Cached(Handled(acc, findFileInZip(zr, entries[i + 1].Path)),
                                   entries[i + 1].Path),
                            entries, i, ReadFile(zr, entries[i + 1].Path)[1].data))

\* chapters: the chapters so far; handles: the handles opened and closed so
\* far; cache: the keys of htmlCache; trace: history of the chapters
NoChapters == [chapters |-> <<>>, trace |-> <<>>, handles |-> <<>>, cache |-> {}]

extractChaptersFromTOC(zr, entries) == TOCChapters(zr, entries, 0, NoChapters)

\* a variant of SpineDefaultTitle that omits the + 1
SpineDefaultTitleFromZero(i) == <<"C", "h", "a", "p", "t", "e", "r", " ">> \o Itoa(i)

\* fmt.Sprintf("Chapter %d", i+1) for the spine index i
SpineDefaultTitle(i) == <<"C", "h", "a", "p", "t", "e", "r", " ">> \o Itoa(i + 1)

\* the chapter of spine item i (0-based) whose file was read
SpineChapter(acc, i, idref, htmlContent) ==
    [acc EXCEPT
     !.chapters = Append(acc.chapters,
                     [ID |-> idref,
                      Title |-> TrimSpace(extractChapterTitle(htmlContent, SpineDefaultTitle(i))),
                      Level |-> 0,
                      Elements |-> htmlToElements(htmlContent)]),
     !.trace = Append(acc.trace,
                     [src |-> "spine", idx |-> i, start |-> 0, end |-> Len(htmlContent),
                      segment |-> htmlContent])]

RECURSIVE SpineChapters(_, _, _, _, _, _)
\* the fallback loop over pkg.Spine.ItemRefs from item i (0-based)
SpineChapters(zr, baseDir, items, itemRefs, i, acc) ==
    IF i >= Len(itemRefs) THEN acc
    ELSE IF itemRefs[i + 1] \notin ManifestIDs(items)
         THEN SpineChapters(zr, baseDir, items, itemRefs, i + 1, acc)
    ELSE IF ReadFile(zr, normalizeEPUBPath(baseDir,
                            ManifestItem(items, itemRefs[i + 1]).Href)) = <<>>
         THEN SpineChapters(zr, baseDir, items, itemRefs, i + 1,
                 Handled(acc, findFileInZip(zr, normalizeEPUBPath(baseDir,
                                  ManifestItem(items, itemRefs[i + 1]).Href))))
    ELSE SpineChapters(zr, baseDir, items, itemRefs, i + 1,
            SpineChapter(Handled(acc, findFileInZip(zr, normalizeEPUBPath(baseDir,
                                     ManifestItem(items, itemRefs[i + 1]).Href))),
                i, itemRefs[i + 1],
                ReadFile(zr, normalizeEPUBPath(baseDir,
                            ManifestItem(items, itemRefs[i + 1]).Href))[1].data))

\* ------------------------------------------------------------------------
\* EPUB inputs: archives with up to two chapter files, an NCX and a nav file
\* ------------------------------------------------------------------------

HeadA ==
    <<"<", "h", "1", " ", "i", "d", "=", "\"", "a", "\"", ">", "A", "<", "/",
      "h", "1", ">">>
ParaB ==
    <<"<", "p", " ", "i", "d", "=", "\"", "b", "\"", ">", " ", "x", " ", "<",
      "/", "p", ">">>
\* text before the first anchor, anchors by name and id in single quotes
FileNamed ==
    <<"y", " ", "<", "a", " ", "n", "a", "m", "e", "=", "'", "a", "'", ">",
      "<", "/", "a", ">", "<", "h", "2", ">", "B", "<", "/", "h", "2", ">",
      "<", "i", " ", "i", "d", "=", "'", "b", "'", ">", "z", "<", "/",
      "i", ">">>
\* no anchor and no heading
FilePlain ==
    <<"<", "p", ">", "x", "<", "/", "p", ">">>
\* an h1 after an h2 and a title
FileLateH1 ==
    <<"<", "t", "i", "t", "l", "e", ">", "C", "<", "/", "t", "i", "t", "l",
      "e", ">", "<", "h", "2", ">", "B", "<", "/", "h", "2", ">", "<", "h",
      "1", ">", "A", "<", "/", "h", "1", ">">>
\* a blank h1 before an h2
FileBlankH1 ==
    <<"<", "h", "1", ">", " ", "<", "/", "h", "1", ">", "<", "h", "2", ">",
      "B", "<", "/", "h", "2", ">">>
\* a title in the head and bare text
FileTitled ==
    <<"<", "h", "e", "a", "d", ">", "<", "t", "i", "t", "l", "e", ">", " ",
      "C", " ", "<", "/", "t", "i", "t", "l", "e", ">", "<", "/", "h", "e",
      "a", "d", ">", " ", "y", " ">>
\* bare text
FileText ==
    <<" ", "y", " ">>
FilePlain2 ==
    <<"<", "p", ">", "z", "<", "/", "p", ">">>
NavA ==
    <<"<", "a", " ", "h", "r", "e", "f", "=", "\"", "c", "1", "#", "a", "\"",
      ">", "N", "<", "/", "a", ">">>
NavTwo ==
    <<"<", "a", " ", "c", "l", "a", "s", "s", "=", "\"", "x", "\"", " ", "h",
      "r", "e", "f", " ", "=", " ", "\"", "c", "2", "\"", ">", "N", "<", "/",
      "a", ">", " ", "<", "A", " ", "H", "R", "E", "F", "=", "\"", "c", "1",
      "#", "b", "\"", ">", "<", "b", ">", "M", "<", "/", "b", ">", "<", "/",
      "A", ">">>
\* a nav file whose only link has a blank title
NavNone ==
    <<"<", "p", ">", "x", "<", "/", "p", ">", "<", "a", " ", "h", "r", "e",
      "f", "=", "\"", "c", "1", "\"", ">", " ", "<", "/", "a", ">">>
NameC1 ==
    <<"c", "1">>
NameC2 ==
    <<"c", "2">>
NameNCX ==
    <<"n", "c", "x">>
NameNav ==
    <<"n", "a", "v">>
NameZZ ==
    <<"z", "z">>
HrefC2 ==
    <<" ", "c", "2", "?", "v">>
SrcC1A ==
    <<"c", "1", "#", "a">>
SrcC1B ==
    <<"c", "1", "#", "b">>
SrcC1 ==
    <<"c", "1">>
SrcC2 ==
    <<" ", "c", "2", "#", "b">>
SrcZZ ==
    <<"z", "z">>
SrcFragment ==
    <<"#", "a">>
NameContainer ==
    <<"M", "E", "T", "A", "-", "I", "N", "F", "/", "c", "o", "n", "t", "a",
      "i", "n", "e", "r", ".", "x", "m", "l">>
NameOPF ==
    <<"c", "o", "n", "t", "e", "n", "t", ".", "o", "p", "f">>
NameGone ==
    <<"g", "o", "n", "e", ".", "o", "p", "f">>
BookTitleEPUB ==
    <<" ", "B", "o", "o", "k">>

FileAB == HeadA \o NewLine \o ParaB

LabelT == <<" ", "T">>
LabelU == <<"<", "b", ">", "U", "<", "/", "b", ">">>
LabelN == <<"N">>
LabelBlank == <<" ">>

NavPoint(text, src, kids) == [Text |-> text, Src |-> src, NavPoints |-> kids]

\* the navPoints of the NCX files tried
NcxAB == <<NavPoint(LabelT, SrcC1A, <<>>), NavPoint(LabelU, SrcC1B, <<>>)>>
NcxBA == <<NavPoint(LabelT, SrcC1B, <<>>), NavPoint(LabelU, SrcC1A, <<>>)>>
NcxFiles == <<NavPoint(LabelT, SrcC1A, <<>>), NavPoint(LabelU, SrcC2, <<>>),
              NavPoint(LabelN, SrcC1A, <<>>), NavPoint(LabelT, SrcC1B, <<>>)>>
NcxNested == <<NavPoint(LabelT, SrcC1, <<NavPoint(LabelU, SrcC1B, <<>>)>>),
               NavPoint(LabelBlank, SrcC1A, <<>>)>>
NcxGone == <<NavPoint(LabelT, SrcZZ, <<>>), NavPoint(LabelU, SrcFragment, <<>>)>>

TextFile(name, data) == [Name |-> name, kind |-> "text", data |-> data]
NCXFile(wf, points) == [Name |-> NameNCX, kind |-> "ncx", wf |-> wf, NavPoints |-> points]
ContainerFile(wf, fullPath) ==
    [Name |-> NameContainer, kind |-> "container", wf |-> wf, FullPath |-> fullPath]
PackageFile(wf, items, spineTOC, itemRefs) ==
    [Name |-> NameOPF, kind |-> "package", wf |-> wf, Titles |-> <<BookTitleEPUB>>,
     Languages |-> <<>>,
     Items |-> items, SpineTOC |-> spineTOC, ItemRefs |-> itemRefs]

Item(id, href, mediaType) == [ID |-> id, Href |-> href, MediaType |-> mediaType]

\* the NCX and nav files an archive may hold, each as a sequence of at most one
NcxOptions ==
    {<<>>} \cup {<<NCXFile(TRUE, n)>> : n \in {NcxAB, NcxBA, NcxFiles, NcxNested, NcxGone}}
           \cup {<<NCXFile(FALSE, NcxAB)>>}
NavOptions == {<<>>} \cup {<<TextFile(NameNav, d)>> : d \in {NavA, NavTwo, NavNone}}

ManifestOf(ncxOpt, navOpt) ==
    <<Item(NameC1, NameC1, MediaXHTML), Item(NameC2, HrefC2, MediaXHTML)>>
    \o (IF ncxOpt = <<>> THEN <<>> ELSE <<Item(NameNCX, NameNCX, MediaNCX)>>)
    \o (IF navOpt = <<>> THEN <<>> ELSE <<Item(NameNav, NameNav, MediaXHTML)>>)

MkArchive(c1, c2Opt, ncxOpt, navOpt, spineTOC, itemRefs) ==
    <<ContainerFile(TRUE, NameOPF),
      PackageFile(TRUE, ManifestOf(ncxOpt, navOpt), spineTOC, itemRefs),
      TextFile(NameC1, c1)>>
    \o c2Opt \o ncxOpt \o navOpt

\* archives with tables of contents
TOCArchives ==
    {MkArchive(c1, <<TextFile(NameC2, FilePlain2)>>, ncxOpt, navOpt, spineTOC,
               <<NameC1, NameC2>>) :
        c1 \in {FileAB, FileNamed, FilePlain, <<>>},
        ncxOpt \in NcxOptions, navOpt \in NavOptions,
        spineTOC \in {<<>>, NameNCX, NameNav, NameC1, NameZZ}}

\* archives whose table of contents, if any, gives no chapter
SpineArchives ==
    {MkArchive(c1, c2Opt, ncxOpt, navOpt, spineTOC, itemRefs) :
        c1 \in {FileAB, FileNamed, FilePlain, FileLateH1, FileBlankH1, FileTitled,
                FileText, <<>>},
        c2Opt \in {<<>>, <<TextFile(NameC2, FilePlain2)>>},
        ncxOpt \in {<<>>, <<NCXFile(TRUE, NcxGone)>>, <<NCXFile(FALSE, NcxAB)>>},
        navOpt \in {<<>>, <<TextFile(NameNav, NavNone)>>},
        spineTOC \in {<<>>, NameNCX},
        itemRefs \in {<<NameC1, NameC2>>, <<NameC2, NameC1>>, <<NameC1, NameC1>>,
                      <<NameZZ, NameC1>>, <<>>}}

\* archives parseFromZip rejects
BrokenArchives ==
    {<<>>,
     <<ContainerFile(FALSE, NameOPF)>>,
     <<ContainerFile(TRUE, NameGone)>>,
     <<ContainerFile(TRUE, NameOPF), PackageFile(FALSE, <<>>, <<>>, <<>>)>>}

NameCoverPng == <<"a", ".", "p", "n", "g">>
NameCoverUpper == <<"C", "o", "v", "e", "r", ".", "P", "N", "G">>
NameCoverJpg == <<"b", ".", "j", "p", "g">>
HrefCoverSpaced == <<" ", "b", ".", "j", "p", "g">>
NameCoverGif == <<"e", ".", "g", "i", "f">>
IDCover == <<"c", "o", "v", "e", "r">>
IDCoverUpper == <<"C", "O", "V", "E", "R">>
IDImg == <<"i", "m", "g">>

\* manifest items that are or resemble covers
CoverItems ==
    {Item(IDCover, NameCoverPng, "image/png"),
     Item(IDImg, NameCoverUpper, "image/jpeg"),
     Item(IDCoverUpper, HrefCoverSpaced, "image/jpg"),
     Item(IDCover, NameCoverPng, "text/css"),
     Item(IDImg, NameCoverPng, "image/png"),
     Item(IDCover, NameCoverGif, "image/jpeg"),
     Item(IDCover, NameGone, "image/png")}

\* the files of the cover images; no file is named " b.jpg" or "gone.opf"
CoverFiles ==
    <<TextFile(NameCoverPng, <<"P">>), TextFile(NameCoverUpper, <<"U">>),
      TextFile(NameCoverJpg, <<"J">>), TextFile(NameCoverGif, <<>>)>>

\* archives that vary the cover items of the manifest
CoverArchives ==
    {<<ContainerFile(TRUE, NameOPF),
       PackageFile(TRUE, <<Item(NameC1, NameC1, MediaXHTML)>> \o covers, <<>>, <<NameC1>>),
       TextFile(NameC1, FilePlain)>> \o CoverFiles :
        covers \in SeqsUpTo(CoverItems, MaxCovers)}

\* an entry that is listed in the archive but cannot be opened or read
DamagedFile(name, io) == [Name |-> name, kind |-> "damaged", io |-> io, wf |-> FALSE,
                          data |-> <<>>]

\* zr with its entries of the names in names replaced by damaged ones
Damaged(zr, names, io) ==
    [k \in 1..Len(zr) |-> IF zr[k].Name \in names THEN DamagedFile(zr[k].Name, io)
                          ELSE zr[k]]

\* an archive with two chapters, an NCX, a nav file and a cover
SoundArchive(ncx, itemRefs) ==
    <<ContainerFile(TRUE, NameOPF),
      PackageFile(TRUE, ManifestOf(<<NCXFile(TRUE, ncx)>>, <<TextFile(NameNav, NavA)>>)
                        \o <<Item(IDCover, NameCoverPng, "image/png")>>,
                  NameNCX, itemRefs),
      TextFile(NameC1, FileAB), TextFile(NameC2, FilePlain2), NCXFile(TRUE, ncx),
      TextFile(NameNav, NavA), TextFile(NameCoverPng, <<"P">>)>>

\* archives some of whose entries cannot be opened or cannot be read
DamagedArchives ==
    {Damaged(SoundArchive(ncx, itemRefs), names, io) :
        ncx \in {NcxAB, NcxFiles}, itemRefs \in {<<NameC1, NameC2>>, <<NameC2>>},
        names \in {{}, {NameContainer}, {NameOPF}, {NameC1}, {NameC2}, {NameC1, NameC2},
                   {NameNCX}, {NameNCX, NameNav}, {NameNCX, NameNav, NameC1},
                   {NameCoverPng}, {NameNCX, NameNav, NameC1, NameC2, NameCoverPng}},
        io \in {"open", "read"}}

\* archives that declare languages
LangArchives ==
    {[SoundArchive(NcxAB, <<NameC1, NameC2>>) EXCEPT ![2].Languages = ls] :
        ls \in {<<l>> : l \in Languages} \cup {<<<<"e", "n", "g">>, <<"r", "u">>>>}}

EPUBInputs == TOCArchives \cup SpineArchives \cup BrokenArchives \cup CoverArchives
              \cup DamagedArchives \cup LangArchives

\* ------------------------------------------------------------------------
\* The EPUB parse as a state machine: Parser.ParseReader, made twice
\* ------------------------------------------------------------------------

\* no FB2 call is under way
FbIdle ==
    /\ fbInput = [kind |-> "idle"]
    /\ fbCfg = [TOCMaxDepth |-> 3, ParseNotes |-> FALSE]
    /\ fbPc = "idle"
    /\ fbData = [kind |-> "idle"]
    /\ fbDoc = ZeroDoc
    /\ fbSan = "none"
    /\ fbHist = ZeroHist
    /\ fbResult = NotReturned
    /\ fbTrace = <<>>

InitEPUB ==
    /\ epZip \in EPUBInputs
    /\ epPc = "Parse"
    /\ epPkg = ZeroPkg
    /\ epBase = <<>>
    /\ epTocIDs = <<>>
    /\ epEntries = <<>>
    /\ epResults = <<>>
    /\ epTraces = <<>>
    /\ epIO = ZeroIO
    /\ FbIdle
    /\ RgIdle
    /\ ExIdle
    /\ CcIdle

ContainerOf(zr) == findFileInZip(zr, NameContainer)
PackageOf(zr) == findFileInZip(zr, ContainerOf(zr)[1].FullPath)

\* the error parseFromZip returns before it has a package, NoError if none
OpenError(zr) ==
    IF ContainerOf(zr) = <<>> THEN "container.xml not found"
    ELSE IF ~(ContainerOf(zr)[1].kind = "container" /\ ContainerOf(zr)[1].wf)
         THEN "failed to parse container.xml"
    ELSE IF PackageOf(zr) = <<>> THEN "package file not found"
    ELSE IF ~(PackageOf(zr)[1].kind = "package" /\ PackageOf(zr)[1].wf)
         THEN "failed to parse package file"
    ELSE NoError

CoverWord == <<"c", "o", "v", "e", "r">>
DotPng == <<".", "p", "n", "g">>
CoverMediaTypes == {"image/jpeg", "image/png", "image/jpg"}

\* the condition of the loop of extractCoverHref on one manifest item
IsCoverItem(item) ==
    /\ \/ IndexOfLit(ToLower(item.ID), CoverWord, 1, FALSE) > 0
       \/ IndexOfLit(ToLower(item.Href), CoverWord, 1, FALSE) > 0
    /\ item.MediaType \in CoverMediaTypes

RECURSIVE CoverHrefFrom(_, _, _)
\* a variant of CoverHrefFrom that prefers a later matching item
CoverHrefFromLast(items, baseDir, k) ==
    IF k > Len(items) THEN <<>>
    ELSE IF CoverHrefFrom(items, baseDir, k + 1) # <<>>
    THEN CoverHrefFrom(items, baseDir, k + 1)
    ELSE IF IsCoverItem(items[k]) THEN JoinClean(baseDir, items[k].Href)
    ELSE <<>>

\* the loop of extractCoverHref from item k: filepath.Join(baseDir, href) of
\* the first matching item, "" if there is none
CoverHrefFrom(items, baseDir, k) ==
    IF k > Len(items) THEN <<>>
    ELSE IF IsCoverItem(items[k]) THEN JoinClean(baseDir, items[k].Href)
    ELSE CoverHrefFrom(items, baseDir, k + 1)

extractCoverHref(pkg, baseDir) == CoverHrefFrom(pkg.Items, baseDir, 1)

NoCover == [CoverData |-> <<>>, CoverType |-> ""]

\* extractMetadata, the cover: the bytes of the file coverHref names, if it
\* is in the archive, and the type its name gives
CoverOf(zr, coverHref) ==
    IF coverHref # <<>> /\ ReadFile(zr, coverHref) # <<>>
    THEN [CoverData |-> ReadFile(zr, coverHref)[1].data,
          CoverType |-> IF HasSuffixFold(coverHref, DotPng) THEN "image/png"
                        ELSE "image/jpeg"]
    ELSE NoCover

\* extractMetadata, the handle of the cover file: defer rc.Close()
CoverEvents(zr, coverHref) ==
    IF coverHref = <<>> THEN <<>> ELSE FileEvents(findFileInZip(zr, coverHref))

RECURSIVE FirstBytes(_, _, _)
\* s[:n] on the bytes of s, from character i: a character cut in the middle
\* leaves a byte that is no character
FirstBytes(s, i, n) ==
    IF n = 0 \/ i > Len(s) THEN <<>>
    ELSE IF Utf8Width(s[i]) > n THEN <<HIBYTE>>
    ELSE <<s[i]>> \o FirstBytes(s, i + 1, n - Utf8Width(s[i]))

\* extractMetadata, the language: trimmed, and cut to two bytes if longer
LanguageOf(declared) ==
    IF ByteLen(TrimSpace(declared)) > 2 THEN FirstBytes(TrimSpace(declared), 1, 2)
    ELSE TrimSpace(declared)

extractMetadataEPUB(pkg, baseDir, zr) ==
    [Title |-> IF Len(pkg.Titles) > 0 THEN TrimSpace(pkg.Titles[1]) ELSE <<>>,
     Language |-> IF Len(pkg.Languages) > 0 THEN LanguageOf(pkg.Languages[1]) ELSE <<>>,
     Cover |-> CoverOf(zr, extractCoverHref(pkg, baseDir))]

\* the handles of parseFromZip up to the decoded package file:
\* parseXMLFromZipFile on container.xml and, if that gave the container, on
\* the package file
OpenEvents(zr) ==
    FileEvents(ContainerOf(zr))
    \o (IF ContainerOf(zr) # <<>> /\ ContainerOf(zr)[1].kind = "container"
           /\ ContainerOf(zr)[1].wf
        THEN FileEvents(PackageOf(zr)) ELSE <<>>)

\* the name of the archive file given to Parse
NameArchive == <<"b", ".", "e", "p", "u", "b">>

\* Parse: zip.OpenReader(filePath) and defer r.Close()
EpParse ==
    /\ epPc = "Parse"
    /\ epIO' = [epIO EXCEPT !.log = Append(@, OpenEvent(NameArchive)),
                            !.deferred = Append(@, NameArchive)]
    /\ epPc' = "parseFromZip"
    /\ UNCHANGED <<epZip, epPkg, epBase, epTocIDs, epEntries, epResults, epTraces>>
    /\ UNCHANGED <<fbVars, rgVars, exVars, ccVars>>

\* ExtractCoverOnly: zip.OpenReader(filePath) and defer r.Close()
EpExtractCoverOnly ==
    /\ epPc = "Parse"
    /\ epResults = <<>>
    /\ epIO' = [epIO EXCEPT !.log = Append(@, OpenEvent(NameArchive)),
                            !.deferred = Append(@, NameArchive)]
    /\ epPc' = "extractCoverFromZip"
    /\ UNCHANGED <<epZip, epPkg, epBase, epTocIDs, epEntries, epResults, epTraces>>
    /\ UNCHANGED <<fbVars, rgVars, exVars, ccVars>>

\* extractCoverFromZip once it has the cover reference
FastCoverOf(zr, coverHref) ==
    IF coverHref = <<>> \/ findFileInZip(zr, coverHref) = <<>>
    THEN [data |-> <<>>, type |-> "", err |-> NoError]
    ELSE IF OpenFails(findFileInZip(zr, coverHref)[1])
    THEN [data |-> <<>>, type |-> "", err |-> "open failed"]
    ELSE IF ReadFails(findFileInZip(zr, coverHref)[1])
    THEN [data |-> <<>>, type |-> "", err |-> "read failed"]
    ELSE [data |-> findFileInZip(zr, coverHref)[1].data,
          type |-> IF HasSuffixFold(coverHref, DotPng) THEN "image/png" ELSE "image/jpeg",
          err |-> NoError]

\* what extractCoverFromZip returns
extractCoverFromZip(zr) ==
    IF OpenError(zr) # NoError THEN [data |-> <<>>, type |-> "", err |-> OpenError(zr)]
    ELSE FastCoverOf(zr, extractCoverHref(PackageOf(zr)[1], DirOf(ContainerOf(zr)[1].FullPath)))

\* the handles of the cover file of the archive, once the package is decoded
PackageCoverEvents(zr) ==
    CoverEvents(zr, extractCoverHref(PackageOf(zr)[1], DirOf(ContainerOf(zr)[1].FullPath)))

\* extractCoverFromZip, and the return of ExtractCoverOnly
EpExtractCoverFromZip ==
    /\ epPc = "extractCoverFromZip"
    /\ epIO' = [epIO EXCEPT
          !.log = @ \o OpenEvents(epZip)
                    \o (IF OpenError(epZip) = NoError THEN PackageCoverEvents(epZip) ELSE <<>>)
                    \o Deferred(epIO.deferred),
          !.deferred = <<>>,
          !.fast = extractCoverFromZip(epZip)]
    /\ epPc' = "extracted"
    /\ UNCHANGED <<epZip, epPkg, epBase, epTocIDs, epEntries, epResults, epTraces>>
    /\ UNCHANGED <<fbVars, rgVars, exVars, ccVars>>

\* the call returns: its result and the history of its chapters are recorded
EpReturn(book, err, trace, events) ==
    /\ epResults' = Append(epResults, [book |-> book, err |-> err])
    /\ epTraces' = Append(epTraces, trace)
    /\ epIO' = [epIO EXCEPT !.log = @ \o events \o Deferred(epIO.deferred),
                            !.deferred = <<>>]
    /\ epPc' = "returned"

EpBook(acc) ==
    <<[Metadata |-> extractMetadataEPUB(epPkg, epBase, epZip), Content |-> acc.chapters]>>

\* parseFromZip up to the decoded package file
EpParseFromZip ==
    /\ epPc = "parseFromZip"
    /\ IF OpenError(epZip) # NoError
       THEN /\ EpReturn(NoBook, OpenError(epZip), <<>>, OpenEvents(epZip))
            /\ UNCHANGED <<epPkg, epBase>>
       ELSE /\ epPkg' = [Titles |-> PackageOf(epZip)[1].Titles,
                         Languages |-> PackageOf(epZip)[1].Languages,
                         Items |-> PackageOf(epZip)[1].Items,
                         SpineTOC |-> PackageOf(epZip)[1].SpineTOC,
                         ItemRefs |-> PackageOf(epZip)[1].ItemRefs]
            /\ epBase' = DirOf(ContainerOf(epZip)[1].FullPath)
            /\ epIO' = [epIO EXCEPT
                  !.log = @ \o OpenEvents(epZip) \o PackageCoverEvents(epZip)]
            /\ epPc' = "extractTOCEntries"
            /\ UNCHANGED <<epResults, epTraces>>
    /\ UNCHANGED <<epZip, epTocIDs, epEntries>>
    /\ UNCHANGED <<fbVars, rgVars, exVars, ccVars>>

\* extractTOCEntries, the candidate list: the spine's TOC id, then the ids
\* the range over manifestMediaTypeMap gives, in the order the map yields them
EpCollectTOCIDs ==
    /\ epPc = "extractTOCEntries"
    /\ \E order \in MapOrders(MapCandidates(epPkg.Items)) :
          epTocIDs' = (IF epPkg.SpineTOC # <<>> THEN <<epPkg.SpineTOC>> ELSE <<>>) \o order
    /\ epPc' = "tocLoop"
    /\ UNCHANGED <<epZip, epPkg, epBase, epEntries, epResults, epTraces, epIO>>
    /\ UNCHANGED <<fbVars, rgVars, exVars, ccVars>>

\* a variant of EpAfterTOC that keeps the chapters of the table of contents
\* only if there are two or more
EpAfterTOCTwoOrMore(acc, events) ==
    IF Len(acc.chapters) > 1
    THEN EpReturn(EpBook(acc), NoError, acc.trace, events \o acc.handles)
    ELSE /\ epPc' = "spine"
         /\ epIO' = [epIO EXCEPT !.log = @ \o events \o acc.handles,
                                 !.spine = TRUE]
         /\ UNCHANGED <<epResults, epTraces>>

\* what extractContent does with the chapters of the table of contents;
\* events are the handles of extractTOCEntries
EpAfterTOC(acc, events) ==
    IF Len(acc.chapters) > 0
    THEN EpReturn(EpBook(acc), NoError, acc.trace, events \o acc.handles)
    ELSE /\ epPc' = "spine"
         /\ epIO' = [epIO EXCEPT !.log = @ \o events \o acc.handles,
                                 !.spine = TRUE]
         /\ UNCHANGED <<epResults, epTraces>>

\* extractTOCEntries, the loop over the candidates, and extractChaptersFromTOC
EpChaptersFromTOC ==
    /\ epPc = "tocLoop"
    /\ epEntries' = extractTOCEntries(epZip, epBase, epPkg.Items, epTocIDs, 1)
    /\ EpAfterTOC(extractChaptersFromTOC(epZip,
            extractTOCEntries(epZip, epBase, epPkg.Items, epTocIDs, 1)),
                  TOCEvents(epZip, epBase, epPkg.Items, epTocIDs, 1))
    /\ UNCHANGED <<epZip, epPkg, epBase, epTocIDs>>
    /\ UNCHANGED <<fbVars, rgVars, exVars, ccVars>>

\* a variant of the return that fails when the spine gave no chapter
EpReturnSpineFailEmpty(acc) ==
    IF Len(acc.chapters) = 0 THEN EpReturn(NoBook, "no chapters", acc.trace, acc.handles)
    ELSE EpReturn(EpBook(acc), NoError, acc.trace, acc.handles)

EpReturnSpine(acc) == EpReturn(EpBook(acc), NoError, acc.trace, acc.handles)

\* extractContent, the fallback to the spine
EpSpineFallback ==
    /\ epPc = "spine"
    /\ EpReturnSpine(SpineChapters(epZip, epBase, epPkg.Items, epPkg.ItemRefs, 0, NoChapters))
    /\ UNCHANGED <<epZip, epPkg, epBase, epTocIDs, epEntries>>
    /\ UNCHANGED <<fbVars, rgVars, exVars, ccVars>>

\* the caller parses the same archive a second time
EpParseAgain ==
    /\ epPc = "returned"
    /\ Len(epResults) = 1
    /\ epPc' = "Parse"
    /\ epIO' = ZeroIO
    /\ epPkg' = ZeroPkg
    /\ epBase' = <<>>
    /\ epTocIDs' = <<>>
    /\ epEntries' = <<>>
    /\ UNCHANGED <<epZip, epResults, epTraces>>
    /\ UNCHANGED <<fbVars, rgVars, exVars, ccVars>>

NextEPUB ==
    \/ EpParse
    \/ EpExtractCoverOnly
    \/ EpExtractCoverFromZip
    \/ EpParseFromZip
    \/ EpCollectTOCIDs
    \/ EpChaptersFromTOC
    \/ EpSpineFallback
    \/ EpParseAgain

SpecEPUB == InitEPUB /\ [][NextEPUB]_vars

\* ------------------------------------------------------------------------
\* The parser registry
\* ------------------------------------------------------------------------

InitRegistry ==
    /\ parsers = [k \in FormatKeys |-> NoParser]
    /\ registryMutex = FreeMutex
    /\ rgCalls = [t \in Goroutines |-> IdleCall]
    /\ rgHist = ZeroRgHist
    /\ FbIdle
    /\ EpIdle
    /\ ExIdle
    /\ CcIdle

\* goroutine t may begin a call
RgReady(t) == rgCalls[t].pc = "idle" /\ rgHist.started < MaxCalls

\* t calls Register(format, parser)
Register(t) ==
    /\ RgReady(t)
    /\ \E format \in FormatNames :
          rgCalls' = [rgCalls EXCEPT ![t] =
              [pc |-> "Lock", op |-> "Register", format |-> format,
               parser |-> <<t, rgCalls[t].calls + 1>>, calls |-> rgCalls[t].calls,
               floor |-> 0, widx |-> 0, result |-> NoResult]]
    /\ rgHist' = [rgHist EXCEPT !.started = @ + 1]
    /\ UNCHANGED <<parsers, registryMutex>>
    /\ UNCHANGED <<fbVars, epVars, exVars, ccVars>>

\* t calls GetParser(format); floor is the last write to the key whose
\* Register had returned by then
GetParser(t) ==
    /\ RgReady(t)
    /\ \E format \in FormatNames :
          rgCalls' = [rgCalls EXCEPT ![t] =
              [pc |-> "RLock", op |-> "GetParser", format |-> format,
               parser |-> NoParser, calls |-> rgCalls[t].calls,
               floor |-> rgHist.returned[ToLower(format)], widx |-> 0,
               result |-> NoResult]]
    /\ rgHist' = [rgHist EXCEPT !.started = @ + 1]
    /\ UNCHANGED <<parsers, registryMutex>>
    /\ UNCHANGED <<fbVars, epVars, exVars, ccVars>>

\* t calls RegisteredFormats()
RegisteredFormats(t) ==
    /\ RgReady(t)
    /\ rgCalls' = [rgCalls EXCEPT ![t] =
          [pc |-> "RLock", op |-> "RegisteredFormats", format |-> <<>>,
           parser |-> NoParser, calls |-> rgCalls[t].calls,
           floor |-> 0, widx |-> 0, result |-> NoResult]]
    /\ rgHist' = [rgHist EXCEPT !.started = @ + 1]
    /\ UNCHANGED <<parsers, registryMutex>>
    /\ UNCHANGED <<fbVars, epVars, exVars, ccVars>>

\* a variant of the write lock that does not wait for the readers
RgLockAmongReaders(t) ==
    /\ rgCalls[t].pc = "Lock"
    /\ registryMutex.writer = 0
    /\ registryMutex' = [registryMutex EXCEPT !.writer = t]
    /\ rgCalls' = [rgCalls EXCEPT ![t].pc = "write"]
    /\ UNCHANGED <<parsers, rgHist>>
    /\ UNCHANGED <<fbVars, epVars, exVars, ccVars>>

\* registryMutex.Lock(): granted when nobody holds the mutex
RgLock(t) ==
    /\ rgCalls[t].pc = "Lock"
    /\ registryMutex = FreeMutex
    /\ registryMutex' = [registryMutex EXCEPT !.writer = t]
    /\ rgCalls' = [rgCalls EXCEPT ![t].pc = "write"]
    /\ UNCHANGED <<parsers, rgHist>>
    /\ UNCHANGED <<fbVars, epVars, exVars, ccVars>>

\* globalRegistry.parsers[strings.ToLower(format)] = parser
RgWrite(t) ==
    /\ rgCalls[t].pc = "write"
    /\ parsers' = [parsers EXCEPT ![ToLower(rgCalls[t].format)] = rgCalls[t].parser]
    /\ rgHist' = [rgHist EXCEPT !.writes[ToLower(rgCalls[t].format)] =
                                    Append(@, rgCalls[t].parser)]
    /\ rgCalls' = [rgCalls EXCEPT ![t].pc = "Unlock",
                                  ![t].widx = Len(rgHist.writes[ToLower(rgCalls[t].format)]) + 1]
    /\ UNCHANGED registryMutex
    /\ UNCHANGED <<fbVars, epVars, exVars, ccVars>>

\* the deferred registryMutex.Unlock(); Register returns
RgUnlock(t) ==
    /\ rgCalls[t].pc = "Unlock"
    /\ registryMutex' = [registryMutex EXCEPT !.writer = 0]
    /\ rgHist' = [rgHist EXCEPT !.returned[ToLower(rgCalls[t].format)] =
                                    IF rgCalls[t].widx > @ THEN rgCalls[t].widx ELSE @]
    /\ rgCalls' = [rgCalls EXCEPT ![t].pc = "idle", ![t].calls = @ + 1]
    /\ UNCHANGED parsers
    /\ UNCHANGED <<fbVars, epVars, exVars, ccVars>>

\* registryMutex.RLock(): granted when no writer holds the mutex
RgRLock(t) ==
    /\ rgCalls[t].pc = "RLock"
    /\ registryMutex.writer = 0
    /\ registryMutex' = [registryMutex EXCEPT !.readers = @ \cup {t}]
    /\ rgCalls' = [rgCalls EXCEPT ![t].pc =
                      IF rgCalls[t].op = "GetParser" THEN "read" ELSE "range"]
    /\ UNCHANGED <<parsers, rgHist>>
    /\ UNCHANGED <<fbVars, epVars, exVars, ccVars>>

\* parser, ok := globalRegistry.parsers[strings.ToLower(format)]
RgRead(t) ==
    /\ rgCalls[t].pc = "read"
    /\ rgCalls' = [rgCalls EXCEPT
          ![t].pc = "RUnlock",
          ![t].result =
              IF parsers[ToLower(rgCalls[t].format)] = NoParser
              THEN [parser |-> NoParser, err |-> "no parser registered for format",
                    formats |-> {}]
              ELSE [parser |-> parsers[ToLower(rgCalls[t].format)], err |-> "nil",
                    formats |-> {}]]
    /\ UNCHANGED <<parsers, registryMutex, rgHist>>
    /\ UNCHANGED <<fbVars, epVars, exVars, ccVars>>

\* for format := range globalRegistry.parsers: the keys, in no fixed order
RgRange(t) ==
    /\ rgCalls[t].pc = "range"
    /\ rgCalls' = [rgCalls EXCEPT
          ![t].pc = "RUnlock",
          ![t].result = [parser |-> NoParser, err |-> "nil",
                         formats |-> {k \in FormatKeys : parsers[k] # NoParser}]]
    /\ UNCHANGED <<parsers, registryMutex, rgHist>>
    /\ UNCHANGED <<fbVars, epVars, exVars, ccVars>>

\* the deferred registryMutex.RUnlock(); the call returns
RgRUnlock(t) ==
    /\ rgCalls[t].pc = "RUnlock"
    /\ registryMutex' = [registryMutex EXCEPT !.readers = @ \ {t}]
    /\ rgCalls' = [rgCalls EXCEPT ![t].pc = "idle", ![t].calls = @ + 1]
    /\ UNCHANGED <<parsers, rgHist>>
    /\ UNCHANGED <<fbVars, epVars, exVars, ccVars>>

NextRegistry ==
    \E t \in DOMAIN rgCalls :
        \/ Register(t)
        \/ GetParser(t)
        \/ RegisteredFormats(t)
        \/ RgLock(t)
        \/ RgWrite(t)
        \/ RgUnlock(t)
        \/ RgRLock(t)
        \/ RgRead(t)
        \/ RgRange(t)
        \/ RgRUnlock(t)

SpecRegistry == InitRegistry /\ [][NextRegistry]_vars

\* ------------------------------------------------------------------------
\* The registrations of fast extractors
\* ------------------------------------------------------------------------

InitExtract ==
    /\ extractors = [f \in ExFormats |-> NoExtractor]
    /\ extractorsMu = FreeMutex
    /\ extractFns = [f \in ExFormats |-> [k \in FnSlots |-> NoExtractor]]
    /\ exCalls = [t \in Goroutines |-> IdleExCall]
    /\ exHist = [started |-> 0]
    /\ FbIdle
    /\ EpIdle
    /\ RgIdle
    /\ CcIdle

ExReady(t) == exCalls[t].pc = "idle" /\ exHist.started < MaxCalls

\* the record of a call that t begins
ExCall(t, op, pc, format, slot) ==
    [pc |-> pc, op |-> op, format |-> format, slot |-> slot,
     fn |-> <<t, exCalls[t].calls + 1>>, calls |-> exCalls[t].calls,
     seen |-> NoExtractor, err |-> "pending", partial |-> FALSE]

\* t calls RegisterExtractor(format, extractor)
RegisterExtractor(t) ==
    /\ ExReady(t)
    /\ \E format \in ExFormats :
          exCalls' = [exCalls EXCEPT ![t] = ExCall(t, "RegisterExtractor", "Lock", format, 0)]
    /\ exHist' = [exHist EXCEPT !.started = @ + 1]
    /\ UNCHANGED <<extractors, extractorsMu, extractFns>>
    /\ UNCHANGED <<fbVars, epVars, rgVars, ccVars>>

\* extractorsMu.Lock()
ExLock(t) ==
    /\ exCalls[t].pc = "Lock"
    /\ extractorsMu = FreeMutex
    /\ extractorsMu' = [extractorsMu EXCEPT !.writer = t]
    /\ exCalls' = [exCalls EXCEPT ![t].pc = "write"]
    /\ UNCHANGED <<extractors, extractFns, exHist>>
    /\ UNCHANGED <<fbVars, epVars, rgVars, ccVars>>

\* extractors[format] = extractor
ExWrite(t) ==
    /\ exCalls[t].pc = "write"
    /\ extractors' = [extractors EXCEPT ![exCalls[t].format] = exCalls[t].fn]
    /\ exCalls' = [exCalls EXCEPT ![t].pc = "Unlock"]
    /\ UNCHANGED <<extractorsMu, extractFns, exHist>>
    /\ UNCHANGED <<fbVars, epVars, rgVars, ccVars>>

\* the deferred extractorsMu.Unlock(); RegisterExtractor returns
ExUnlock(t) ==
    /\ exCalls[t].pc = "Unlock"
    /\ extractorsMu' = [extractorsMu EXCEPT !.writer = 0]
    /\ exCalls' = [exCalls EXCEPT ![t].pc = "idle", ![t].calls = @ + 1, ![t].err = "nil"]
    /\ UNCHANGED <<extractors, extractFns, exHist>>
    /\ UNCHANGED <<fbVars, epVars, rgVars, ccVars>>

\* t calls one of ExtractCoverFromFile .. ExtractMetadataFromReader, which
\* begin with getExtractor(format)
ExtractFromFile(t) ==
    /\ ExReady(t)
    /\ \E format \in ExFormats, slot \in FnSlots :
          exCalls' = [exCalls EXCEPT ![t] = ExCall(t, "ExtractFromFile", "RLock", format, slot)]
    /\ exHist' = [exHist EXCEPT !.started = @ + 1]
    /\ UNCHANGED <<extractors, extractorsMu, extractFns>>
    /\ UNCHANGED <<fbVars, epVars, rgVars, ccVars>>

\* getExtractor: extractorsMu.RLock()
ExRLock(t) ==
    /\ exCalls[t].pc = "RLock"
    /\ extractorsMu.writer = 0
    /\ extractorsMu' = [extractorsMu EXCEPT !.readers = @ \cup {t}]
    /\ exCalls' = [exCalls EXCEPT ![t].pc = "read"]
    /\ UNCHANGED <<extractors, extractFns, exHist>>
    /\ UNCHANGED <<fbVars, epVars, rgVars, ccVars>>

\* getExtractor: extractor, ok := extractors[format]
getExtractor(t) ==
    /\ exCalls[t].pc = "read"
    /\ exCalls' = [exCalls EXCEPT
          ![t].pc = "RUnlock",
          ![t].seen = extractors[exCalls[t].format],
          ![t].err = IF extractors[exCalls[t].format] = NoExtractor
                     THEN "no extractor registered for format" ELSE "nil"]
    /\ UNCHANGED <<extractors, extractorsMu, extractFns, exHist>>
    /\ UNCHANGED <<fbVars, epVars, rgVars, ccVars>>

\* getExtractor: the deferred extractorsMu.RUnlock(); the Extract call goes
\* on without shared state
ExRUnlock(t) ==
    /\ exCalls[t].pc = "RUnlock"
    /\ extractorsMu' = [extractorsMu EXCEPT !.readers = @ \ {t}]
    /\ exCalls' = [exCalls EXCEPT ![t].pc = "idle", ![t].calls = @ + 1]
    /\ UNCHANGED <<extractors, extractFns, exHist>>
    /\ UNCHANGED <<fbVars, epVars, rgVars, ccVars>>

\* t calls RegisterEPUBExtractors or RegisterFB2Extractors with six functions
RegisterFormatExtractors(t) ==
    /\ ExReady(t)
    /\ \E format \in ExFormats :
          exCalls' = [exCalls EXCEPT ![t] = ExCall(t, "RegisterFormatExtractors", "set", format, 1)]
    /\ exHist' = [exHist EXCEPT !.started = @ + 1]
    /\ UNCHANGED <<extractors, extractorsMu, extractFns>>
    /\ UNCHANGED <<fbVars, epVars, rgVars, ccVars>>

\* one of the six assignments, extractEPUBCover = cover and so on; the call
\* returns after the sixth
ExSet(t) ==
    /\ exCalls[t].pc = "set"
    /\ extractFns' = [extractFns EXCEPT ![exCalls[t].format][exCalls[t].slot] = exCalls[t].fn]
    /\ exCalls' = IF exCalls[t].slot < 6
                  THEN [exCalls EXCEPT ![t].slot = @ + 1]
                  ELSE [exCalls EXCEPT ![t].pc = "idle", ![t].calls = @ + 1, ![t].err = "nil"]
    /\ UNCHANGED <<extractors, extractorsMu, exHist>>
    /\ UNCHANGED <<fbVars, epVars, rgVars, ccVars>>

\* t calls one of ExtractCover .. ExtractMetadataReader
ExtractCover(t) ==
    /\ ExReady(t)
    /\ \E format \in ExFormats, slot \in FnSlots :
          exCalls' = [exCalls EXCEPT ![t] = ExCall(t, "ExtractCover", "check", format, slot)]
    /\ exHist' = [exHist EXCEPT !.started = @ + 1]
    /\ UNCHANGED <<extractors, extractorsMu, extractFns>>
    /\ UNCHANGED <<fbVars, epVars, rgVars, ccVars>>

\* the goroutines other than t that are assigning the functions of format
ExSetters(t, format) ==
    {u \in DOMAIN exCalls \ {t} : exCalls[u].pc = "set" /\ exCalls[u].format = format}

\* what a read of the function variable by t may give: its value, or, while
\* another goroutine assigns the functions of the format without
\* synchronization, the function that goroutine assigns
ExReadable(t) ==
    {extractFns[exCalls[t].format][exCalls[t].slot]}
        \cup {exCalls[u].fn : u \in ExSetters(t, exCalls[t].format)}

\* some of the six functions of format are set and others are not
PartlyRegistered(format) ==
    /\ \E k \in FnSlots : extractFns[format][k] # NoExtractor
    /\ \E k \in FnSlots : extractFns[format][k] = NoExtractor

\* if extractEPUBCover == nil { return ... "EPUB extractor not registered" }
ExCheck(t) ==
    /\ exCalls[t].pc = "check"
    /\ \E fn \in ExReadable(t) :
          exCalls' = [exCalls EXCEPT
              ![t].pc = IF fn = NoExtractor THEN "idle" ELSE "call",
              ![t].calls = IF fn = NoExtractor THEN @ + 1 ELSE @,
              ![t].err = IF fn = NoExtractor THEN "extractor not registered" ELSE "pending",
              ![t].partial = fn = NoExtractor /\ PartlyRegistered(exCalls[t].format)]
    /\ UNCHANGED <<extractors, extractorsMu, extractFns, exHist>>
    /\ UNCHANGED <<fbVars, epVars, rgVars, ccVars>>

\* return extractEPUBCover(filePath): the variable is read again
ExCallFn(t) ==
    /\ exCalls[t].pc = "call"
    /\ \E fn \in ExReadable(t) :
          exCalls' = [exCalls EXCEPT
              ![t].pc = "idle", ![t].calls = @ + 1, ![t].seen = fn, ![t].err = "nil"]
    /\ UNCHANGED <<extractors, extractorsMu, extractFns, exHist>>
    /\ UNCHANGED <<fbVars, epVars, rgVars, ccVars>>

NextExtract ==
    \E t \in DOMAIN exCalls :
        \/ RegisterExtractor(t)
        \/ ExLock(t)
        \/ ExWrite(t)
        \/ ExUnlock(t)
        \/ ExtractFromFile(t)
        \/ ExRLock(t)
        \/ getExtractor(t)
        \/ ExRUnlock(t)
        \/ RegisterFormatExtractors(t)
        \/ ExSet(t)
        \/ ExtractCover(t)
        \/ ExCheck(t)
        \/ ExCallFn(t)

SpecExtract == InitExtract /\ [][NextExtract]_vars

\* ------------------------------------------------------------------------
\* Parse calls running concurrently on one Parser
\* ------------------------------------------------------------------------

\* the decoded documents the calls parse
DocTitled ==
    [secs |-> <<MkSection([Title |-> <<>>, Paragraphs |-> <<>>, Epigraphs |-> <<>>], <<2>>),
                MkSection([Title |-> TitleT, Paragraphs |-> <<ParaX>>, Epigraphs |-> <<>>],
                          <<>>),
                MkSection([Title |-> <<>>, Paragraphs |-> <<ParaX>>, Epigraphs |-> <<>>],
                          <<>>)>>,
     Bodies |-> <<[Name |-> "", Title |-> TitleB, Sections |-> <<1>>],
                  [Name |-> "notes", Title |-> <<>>, Sections |-> <<3>>]>>]

DocUntitled ==
    [secs |-> <<MkSection([Title |-> <<>>, Paragraphs |-> <<ParaX>>, Epigraphs |-> <<>>],
                          <<>>),
                MkSection([Title |-> <<>>, Paragraphs |-> <<ParaE>>, Epigraphs |-> <<>>],
                          <<>>)>>,
     Bodies |-> <<[Name |-> "", Title |-> <<>>, Sections |-> <<1, 2>>]>>]

\* an archive and the entries of its NCX
TOCInput(zr) ==
    [kind |-> "epub", zr |-> zr,
     entries |-> extractTOCEntries(zr, DirOf(ContainerOf(zr)[1].FullPath),
                                   PackageOf(zr)[1].Items, <<NameNCX>>, 1)]

CcInputs ==
    {[kind |-> "fb2", fb2 |-> d] : d \in {DocTitled, DocUntitled}}
    \cup {TOCInput(zr) :
            zr \in {SoundArchive(NcxFiles, <<NameC1, NameC2>>),
                    [SoundArchive(NcxFiles, <<NameC1, NameC2>>) EXCEPT ![3].data = FileNamed]}}

\* the reads and the writes of call t are added to the history
Accessed(t, reads, writes) ==
    ccLog \cup {[by |-> t, loc |-> l, kind |-> "r"] : l \in reads}
          \cup {[by |-> t, loc |-> l, kind |-> "w"] : l \in writes}

\* the walk's record of call t, read from its variables
StOf(t) ==
    [chapters |-> ccMem[ChaptersAt(t)], chapterNum |-> ccMem[ChapterNumAt(t)],
     trace |-> <<>>]

\* the Parser the calls share
CcParser ==
    [TOCMaxDepth |-> ccMem[FieldOf("TOCMaxDepth")], ParseNotes |-> ccMem[FieldOf("ParseNotes")]]

WorkBodies(fb2) == [b \in 1..Len(fb2.Bodies) |-> [kind |-> "body", b |-> b]]
WorkSections(ids, b, depth) ==
    [k \in 1..Len(ids) |-> [kind |-> "sec", b |-> b, id |-> ids[k], depth |-> depth]]

\* Parser.extractContent: content, chapterNum := 1, the loop over the bodies
CcExtractContent(t) ==
    /\ ccCalls[t].pc = "start"
    /\ ccCalls[t].input.kind = "fb2"
    /\ ccMem' = [ccMem EXCEPT ![ChapterNumAt(t)] = 1, ![ChaptersAt(t)] = <<>>]
    /\ ccCalls' = [ccCalls EXCEPT ![t].pc = "walk",
                                  ![t].work = WorkBodies(ccCalls[t].input.fb2)]
    /\ ccLog' = Accessed(t, {}, {ChapterNumAt(t), ChaptersAt(t)})

\* one pass of the loop over fb2.Bodies
CcBody(t) ==
    /\ ccCalls[t].pc = "walk"
    /\ ccCalls[t].work # <<>>
    /\ Head(ccCalls[t].work).kind = "body"
    /\ LET b == Head(ccCalls[t].work).b
           body == ccCalls[t].input.fb2.Bodies[b]
       IN  IF body.Name \in {"notes", "comments"} /\ ~CcParser.ParseNotes
           THEN /\ ccCalls' = [ccCalls EXCEPT ![t].work = Tail(@)]
                /\ ccLog' = Accessed(t, {FieldOf("ParseNotes")}, {})
                /\ UNCHANGED ccMem
           ELSE /\ ccMem' = [ccMem EXCEPT
                     ![ChaptersAt(t)] =
                         EmitBodyTitle(StOf(t), b, body, fb2XMLToText(body.Title)).chapters,
                     ![ChapterNumAt(t)] =
                         EmitBodyTitle(StOf(t), b, body, fb2XMLToText(body.Title)).chapterNum]
                /\ ccCalls' = [ccCalls EXCEPT
                     ![t].work = WorkSections(body.Sections, b, 0) \o Tail(@)]
                /\ ccLog' = IF body.Title # <<>>
                            THEN Accessed(t, {FieldOf("ParseNotes"), ChapterNumAt(t),
                                              ChaptersAt(t)},
                                          {ChapterNumAt(t), ChaptersAt(t)})
                            ELSE Accessed(t, {FieldOf("ParseNotes")}, {})

\* one call of Parser.addSections, up to its loop over the subsections
CcAddSections(t) ==
    /\ ccCalls[t].pc = "walk"
    /\ ccCalls[t].work # <<>>
    /\ Head(ccCalls[t].work).kind = "sec"
    /\ LET w == Head(ccCalls[t].work)
           section == ccCalls[t].input.fb2.secs[w.id]
           after == EmitSection(StOf(t), w.b, w.id, w.depth + 1, fb2XMLToText(section.Title),
                                sectionToElements(section), Len(section.Sections) > 0)
       IN  IF w.depth + 1 > CcParser.TOCMaxDepth
           THEN /\ ccCalls' = [ccCalls EXCEPT ![t].work = Tail(@)]
                /\ ccLog' = Accessed(t, {FieldOf("TOCMaxDepth")}, {})
                /\ UNCHANGED ccMem
           ELSE /\ ccMem' = [ccMem EXCEPT ![ChaptersAt(t)] = after.chapters,
                                          ![ChapterNumAt(t)] = after.chapterNum]
                /\ ccCalls' = [ccCalls EXCEPT
                     ![t].work = WorkSections(section.Sections, w.b, w.depth + 1) \o Tail(@)]
                /\ ccLog' = IF after.chapterNum # StOf(t).chapterNum
                            THEN Accessed(t, {FieldOf("TOCMaxDepth"), ChapterNumAt(t),
                                              ChaptersAt(t)},
                                          {ChapterNumAt(t), ChaptersAt(t)})
                            ELSE Accessed(t, {FieldOf("TOCMaxDepth")}
                                             \cup (IF fb2XMLToText(section.Title) = <<>>
                                                   THEN {ChapterNumAt(t)} ELSE {}), {})

\* extractChaptersFromTOC: htmlCache and chapters are made
CcChaptersFromTOC(t) ==
    /\ ccCalls[t].pc = "start"
    /\ ccCalls[t].input.kind = "epub"
    /\ ccMem' = [ccMem EXCEPT ![HtmlCacheAt(t)] = {}, ![ChaptersAt(t)] = <<>>]
    /\ ccCalls' = [ccCalls EXCEPT ![t].pc = "toc", ![t].i = 0]
    /\ ccLog' = Accessed(t, {}, {HtmlCacheAt(t), ChaptersAt(t)})

\* htmlCache[path], for a path that is a key
CacheGet(cache, path) == (CHOOSE e \in cache : e[1] = path)[2]

\* chapters after entry i of entries, its file's text being htmlContent
ChaptersWith(chapters, entries, i, htmlContent) ==
    TOCEntryChapter([NoChapters EXCEPT !.chapters = chapters], entries, i,
                    htmlContent).chapters

\* one pass of the loop of extractChaptersFromTOC
CcTOCEntry(t) ==
    /\ ccCalls[t].pc = "toc"
    /\ ccCalls[t].i < Len(ccCalls[t].input.entries)
    /\ LET i == ccCalls[t].i
           entry == ccCalls[t].input.entries[i + 1]
           zr == ccCalls[t].input.zr
           cache == ccMem[HtmlCacheAt(t)]
       IN  IF entry.Path = <<>> \/ TrimSpace(entry.Title) = <<>>
           THEN UNCHANGED <<ccMem, ccLog>>
           ELSE IF \E e \in cache : e[1] = entry.Path
           THEN /\ ccMem' = [ccMem EXCEPT ![ChaptersAt(t)] =
                     ChaptersWith(@, ccCalls[t].input.entries, i,
                                  CacheGet(cache, entry.Path))]
                /\ ccLog' = Accessed(t, {HtmlCacheAt(t), ChaptersAt(t)}, {ChaptersAt(t)})
           ELSE IF ReadFile(zr, entry.Path) = <<>>
           THEN /\ ccLog' = Accessed(t, {HtmlCacheAt(t)}, {})
                /\ UNCHANGED ccMem
           ELSE /\ ccMem' = [ccMem EXCEPT
                     ![HtmlCacheAt(t)] = @ \cup {<<entry.Path, ReadFile(zr, entry.Path)[1].data>>},
                     ![ChaptersAt(t)] =
                         ChaptersWith(@, ccCalls[t].input.entries, i,
                                      ReadFile(zr, entry.Path)[1].data)]
                /\ ccLog' = Accessed(t, {HtmlCacheAt(t), ChaptersAt(t)},
                                     {HtmlCacheAt(t), ChaptersAt(t)})
    /\ ccCalls' = [ccCalls EXCEPT ![t].i = @ + 1]

\* return content / return chapters
CcReturn(t) ==
    /\ \/ ccCalls[t].pc = "walk" /\ ccCalls[t].work = <<>>
       \/ ccCalls[t].pc = "toc" /\ ccCalls[t].i >= Len(ccCalls[t].input.entries)
    /\ ccCalls' = [ccCalls EXCEPT ![t].pc = "returned",
                                  ![t].result = ccMem[ChaptersAt(t)]]
    /\ ccLog' = Accessed(t, {ChaptersAt(t)}, {})
    /\ UNCHANGED ccMem

InitConcurrent ==
    /\ \E p \in {[TOCMaxDepth |-> 1, ParseNotes |-> TRUE],
                 [TOCMaxDepth |-> 3, ParseNotes |-> FALSE]} :
          ccMem = [l \in CcLocations |->
                      IF l = FieldOf("TOCMaxDepth") THEN p.TOCMaxDepth
                      ELSE IF l = FieldOf("ParseNotes") THEN p.ParseNotes
                      ELSE IF l[2] = "chapterNum" THEN 0
                      ELSE IF l[2] = "htmlCache" THEN {}
                      ELSE <<>>]
    /\ \E ins \in [ParseCalls -> CcInputs] :
          ccCalls = [t \in ParseCalls |-> [IdleParse EXCEPT !.input = ins[t], !.pc = "start"]]
    /\ ccLog = {}
    /\ FbIdle
    /\ EpIdle
    /\ RgIdle
    /\ ExIdle

NextConcurrent ==
    \E t \in ParseCalls :
        /\ \/ CcExtractContent(t)
           \/ CcBody(t)
           \/ CcAddSections(t)
           \/ CcChaptersFromTOC(t)
           \/ CcTOCEntry(t)
           \/ CcReturn(t)
        /\ UNCHANGED <<fbVars, epVars, rgVars, exVars>>

SpecConcurrent == InitConcurrent /\ [][NextConcurrent]_vars

\* ------------------------------------------------------------------------
\* Books built by a caller, and their counts
\* ------------------------------------------------------------------------

MaxBookChapters == 2

ParaTwoWords == [type |-> "Paragraph", Text |-> <<"a", " ", "b">>, HTML |-> <<>>]
ParaWide == [type |-> "Paragraph", Text |-> <<CYR, NBSP, "x", " ", " ", "y">>, HTML |-> <<>>]
HeadingT == [type |-> "Heading", Text |-> <<"T", " ", "t">>, Level |-> 1]
EpigraphNone == [type |-> "Epigraph", Paragraphs |-> <<>>]
EpigraphOne == [type |-> "Epigraph", Paragraphs |-> <<ParaWide>>]
EpigraphTwo == [type |-> "Epigraph", Paragraphs |-> <<ParaTwoWords, ParaWide>>]
ImageI == [type |-> "Image", Alt |-> <<"a", " ", "b">>, Href |-> <<"i">>]
EmptyLineE == [type |-> "EmptyLine"]

ElementLists ==
    {<<>>, <<ParaTwoWords>>, <<ParaWide>>, <<HeadingT>>, <<EpigraphNone>>, <<EpigraphOne>>,
     <<EpigraphTwo>>, <<ImageI, EmptyLineE>>, <<HeadingT, EpigraphTwo, ParaTwoWords>>,
     <<EpigraphNone, EpigraphTwo>>}

BuiltBooks ==
    {[Metadata |-> [Title |-> <<>>],
      Content |-> [c \in 1..Len(ls) |->
                      [ID |-> <<>>, Title |-> <<>>, Level |-> 0, Elements |-> ls[c]]]] :
        ls \in SeqsUpTo(ElementLists, MaxBookChapters)}

InitCounts ==
    /\ fbInput = [kind |-> "built"]
    /\ fbCfg = [TOCMaxDepth |-> 3, ParseNotes |-> FALSE]
    /\ fbPc = "built"
    /\ fbData = [kind |-> "built"]
    /\ fbDoc = ZeroDoc
    /\ fbSan = "none"
    /\ fbHist = ZeroHist
    /\ \E b \in BuiltBooks : fbResult = [book |-> <<b>>, err |-> NoError]
    /\ fbTrace = <<>>
    /\ EpIdle
    /\ RgIdle
    /\ ExIdle
    /\ CcIdle

NextCounts == FbTotals

SpecCounts == InitCounts /\ [][NextCounts]_vars

\* ------------------------------------------------------------------------
\* The sanitizer applied to byte strings, and again to its own output
\* ------------------------------------------------------------------------

MaxSanLen == 4

\* the bytes the four passes tell apart
SanAlphabet == {"&", "<", ";", "#", "3", "l", "t", "-", CYR, HIBYTE, CTL}

SanInputs == SeqsUpTo(SanAlphabet, MaxSanLen) \cup EntityRuns \cup TagRuns

InitSanitize ==
    /\ \E x \in SanInputs : fbInput = [kind |-> "bytes", run |-> x]
    /\ fbCfg = [TOCMaxDepth |-> 3, ParseNotes |-> FALSE]
    /\ fbPc = "sanitize0"
    /\ fbData = fbInput
    /\ fbDoc = ZeroDoc
    /\ fbSan = "none"
    /\ fbHist = ZeroHist
    /\ fbResult = NotReturned
    /\ fbTrace = <<>>
    /\ EpIdle
    /\ RgIdle
    /\ ExIdle
    /\ CcIdle

\* sanitizeFB2XML(data)
SanFirst ==
    /\ fbPc = "sanitize0"
    /\ fbSan' = [fbData EXCEPT !.run = sanitizeFB2XML(@)]
    /\ fbHist' = [fbHist EXCEPT !.sanitizes = @ + 1,
                                !.steps = SanitizeSteps(fbData.run)]
    /\ fbPc' = "sanitize1"
    /\ UNCHANGED <<fbInput, fbCfg, fbData, fbDoc, fbResult, fbTrace>>
    /\ UNCHANGED <<epVars, rgVars, exVars, ccVars>>

\* sanitizeFB2XML(sanitizeFB2XML(data))
SanSecond ==
    /\ fbPc = "sanitize1"
    /\ fbHist' = [fbHist EXCEPT !.sanitizes = @ + 1,
                                !.again = sanitizeFB2XML(fbSan.run)]
    /\ fbPc' = "sanitize2"
    /\ UNCHANGED <<fbInput, fbCfg, fbData, fbDoc, fbSan, fbResult, fbTrace>>
    /\ UNCHANGED <<epVars, rgVars, exVars, ccVars>>

NextSanitize == SanFirst \/ SanSecond

SpecSanitize == InitSanitize /\ [][NextSanitize]_vars

Init == InitFB2 \/ InitEPUB

Next == NextFB2 \/ NextEPUB

Spec == Init /\ [][Next]_vars

\* ------------------------------------------------------------------------
\* Properties of the FB2 parse
\* ------------------------------------------------------------------------

Range(f) == {f[k] : k \in DOMAIN f}

FbDone == fbPc = "done"
FbReturnedBook == FbDone /\ fbResult.book # NoBook
FbChapters == fbResult.book[1].Content

\* the section that lists id among its subsections, 0 for a top-level one
ParentOf(secs, id) ==
    IF \E j \in DOMAIN secs : id \in Range(secs[j].Sections)
    THEN CHOOSE j \in DOMAIN secs : id \in Range(secs[j].Sections)
    ELSE 0

RECURSIVE SectionDepth(_, _)
\* nesting depth of a section in the decoded document, top-level = 1
SectionDepth(secs, id) ==
    IF ParentOf(secs, id) = 0 THEN 1 ELSE 1 + SectionDepth(secs, ParentOf(secs, id))

RECURSIVE RootOf(_, _)
RootOf(secs, id) == IF ParentOf(secs, id) = 0 THEN id ELSE RootOf(secs, ParentOf(secs, id))

\* the sections of body b of the decoded document
SectionsOfBody(b) ==
    {id \in DOMAIN fbDoc.secs : RootOf(fbDoc.secs, id) \in Range(fbDoc.Bodies[b].Sections)}

\* bodies the content walk does not skip
BodyProcessed(b) == ~(fbDoc.Bodies[b].Name \in {"notes", "comments"} /\ ~fbCfg.ParseNotes)

Emitted(b, id) == \E k \in DOMAIN fbTrace : fbTrace[k] = [body |-> b, sec |-> id]

\* C1: a parse of non-ZIP bytes makes at most two decode attempts; the
\* sanitizer runs only after the first attempt failed and never when it
\* succeeded; the second attempt is given the sanitizer's output; and the
\* call returns an error and no Book exactly when both attempts failed.
C1_TwoDecodeAttempts ==
    fbData.kind = "xml" =>
        /\ fbHist.decodes <= 2
        /\ fbHist.sanitizes <= 1
        /\ fbHist.sanitizes > 0 => fbHist.first = "fail"
        /\ fbHist.first = "ok" => fbHist.sanitizes = 0 /\ fbHist.second = "none"
        /\ fbHist.second # "none" =>
              /\ fbHist.sanitizes = 1
              /\ fbHist.input2 = sanitizeFB2XML(fbData.run)
        /\ FbDone =>
              /\ (fbResult.err # NoError) <=> (fbHist.first = "fail" /\ fbHist.second = "fail")
              /\ (fbResult.book = NoBook) <=> (fbResult.err # NoError)

C1_Witness ==
    /\ FbReturnedBook
    /\ fbData.kind = "xml"
    /\ fbHist.first = "fail"
    /\ fbHist.second = "ok"
    /\ fbHist.decodes = 2
    /\ fbHist.input2 # fbData.run

\* C2: with maximum depth D and top-level sections at depth 1, no chapter
\* comes from a section deeper than D (so none from a descendant of one,
\* which is deeper still), and a chapter from a section at depth d has
\* Level d - 1, hence 0 <= Level <= D - 1.
C2_DepthPruning ==
    FbReturnedBook =>
        \A k \in DOMAIN FbChapters :
            fbTrace[k].sec # 0 =>
                /\ SectionDepth(fbDoc.secs, fbTrace[k].sec) <= fbCfg.TOCMaxDepth
                /\ \A a \in DOMAIN fbDoc.secs :
                      (RootOf(fbDoc.secs, fbTrace[k].sec) = RootOf(fbDoc.secs, a)
                       /\ SectionDepth(fbDoc.secs, a) > fbCfg.TOCMaxDepth)
                          => fbTrace[k].sec # a
                /\ FbChapters[k].Level = SectionDepth(fbDoc.secs, fbTrace[k].sec) - 1
                /\ FbChapters[k].Level >= 0
                /\ FbChapters[k].Level <= fbCfg.TOCMaxDepth - 1

\* a section below the maximum depth that itself has a subsection, next to a
\* chapter at the deepest level kept
C2_Witness ==
    /\ FbReturnedBook
    /\ \E id \in DOMAIN fbDoc.secs :
          /\ SectionDepth(fbDoc.secs, id) > fbCfg.TOCMaxDepth
          /\ Len(fbDoc.secs[id].Sections) > 0
          /\ ~Emitted(1, id)
    /\ \E k \in DOMAIN FbChapters :
          fbTrace[k].sec # 0 /\ FbChapters[k].Level = fbCfg.TOCMaxDepth - 1

\* C3: every visited section (depth <= D, in a body that is not skipped)
\* gives a chapter exactly when it yields an element or has no subsection,
\* whether or not its parent gave one; chapters come in document order
\* (bodies in order, a body's title chapter first, sections in pre-order);
\* and a body that is just one untitled section with one paragraph gives
\* exactly one chapter, at Level 0, holding that Paragraph.
C3_EmitRule ==
    FbReturnedBook =>
        /\ Len(fbTrace) = Len(FbChapters)
        /\ \A b \in DOMAIN fbDoc.Bodies : \A id \in SectionsOfBody(b) :
              (BodyProcessed(b) /\ SectionDepth(fbDoc.secs, id) <= fbCfg.TOCMaxDepth) =>
                  (Emitted(b, id) <=>
                      (Len(sectionToElements(fbDoc.secs[id])) > 0
                       \/ Len(fbDoc.secs[id].Sections) = 0))
        /\ \A k, l \in DOMAIN fbTrace :
              k < l => \/ fbTrace[k].body < fbTrace[l].body
                       \/ /\ fbTrace[k].body = fbTrace[l].body
                          /\ fbTrace[k].sec < fbTrace[l].sec
        /\ \A b \in DOMAIN fbDoc.Bodies :
              (/\ BodyProcessed(b)
               /\ fbDoc.Bodies[b].Title = <<>>
               /\ Len(fbDoc.Bodies[b].Sections) = 1
               /\ fbDoc.secs[fbDoc.Bodies[b].Sections[1]] =
                      [Title |-> <<>>, Paragraphs |-> <<ParaX>>, Epigraphs |-> <<>>,
                       Sections |-> <<>>])
              => \E k \in DOMAIN fbTrace :
                    /\ fbTrace[k].body = b
                    /\ \A l \in DOMAIN fbTrace : fbTrace[l].body = b => l = k
                    /\ FbChapters[k].Level = 0
                    /\ FbChapters[k].Elements =
                          <<[type |-> "Paragraph", Text |-> ParaX, HTML |-> ParaX]>>

\* a visited section without a chapter of its own whose subsection has one,
\* and the one-section body of the scenario
C3_Witness ==
    /\ FbReturnedBook
    /\ \E id \in SectionsOfBody(1) :
          /\ SectionDepth(fbDoc.secs, id) < fbCfg.TOCMaxDepth
          /\ ~Emitted(1, id)
          /\ \E c \in Range(fbDoc.secs[id].Sections) : Emitted(1, c)
    /\ \E id \in SectionsOfBody(1) :
          /\ Emitted(1, id)
          /\ Len(fbDoc.secs[id].Sections) > 0
          /\ \E c \in Range(fbDoc.secs[id].Sections) : Emitted(1, c)

\* ------------------------------------------------------------------------
\* Properties of the EPUB parse
\* ------------------------------------------------------------------------

EpLast == Len(epResults)
EpReturned == epPc = "returned"
EpReturnedBook == EpReturned /\ epResults[EpLast].book # NoBook
EpChapters(c) == epResults[c].book[1].Content

\* the class of a candidate in the order the table of contents is looked for
CandidateRank(id) ==
    IF epPkg.SpineTOC # <<>> /\ id = epPkg.SpineTOC THEN 1
    ELSE IF ManifestItem(epPkg.Items, id).MediaType = MediaNCX THEN 2
    ELSE 3

TOCCandidates ==
    (IF epPkg.SpineTOC # <<>> THEN {epPkg.SpineTOC} ELSE {}) \cup MapCandidates(epPkg.Items)

YieldingCandidates ==
    {id \in TOCCandidates : Len(CandidateEntries(epZip, epBase, epPkg.Items, id)) > 0}

\* C4: the entries used are those of a candidate that yields an entry and
\* that no yielding candidate precedes in the order spine TOC id, NCX items,
\* nav items; they are no entries at all when no candidate yields one.
C4_CandidateOrder ==
    epPc \in {"spine", "returned"} =>
        IF YieldingCandidates = {} THEN epEntries = <<>>
        ELSE \E id \in YieldingCandidates :
                /\ \A o \in YieldingCandidates : CandidateRank(id) <= CandidateRank(o)
                /\ epEntries = CandidateEntries(epZip, epBase, epPkg.Items, id)

\* the file content, the start offset and the next entry's start offset as
\* the claims about entry i (0-based) of the table of contents speak of them
EntryContent(i) == findFileInZip(epZip, epEntries[i + 1].Path)[1].data
EntryStart(i) == findAnchorStart(EntryContent(i), epEntries[i + 1].Anchor)
NextSameFile(i) == i + 1 < Len(epEntries) /\ epEntries[i + 2].Path = epEntries[i + 1].Path
NextStart(i) == findAnchorStart(EntryContent(i), epEntries[i + 2].Anchor)
FromTo(s, a, b) == IF b <= a THEN <<>> ELSE SubSeq(s, a + 1, b)

\* the chapters of the call that has just returned, if they came from the
\* table of contents
TOCTrace == IF EpReturned THEN SelectSeq(epTraces[EpLast], LAMBDA tr : tr.src = "toc") ELSE <<>>

\* C5 as stated: the segment of entry i is exactly content[a:b] when entry
\* i+1 is in the same file with a < b, and content[a:] when entry i+1 is in
\* another file or there is none.
C5_ExactSegment ==
    \A k \in DOMAIN TOCTrace :
        /\ (NextSameFile(TOCTrace[k].idx) /\ EntryStart(TOCTrace[k].idx) < NextStart(TOCTrace[k].idx))
              => TOCTrace[k].segment = FromTo(EntryContent(TOCTrace[k].idx),
                                              EntryStart(TOCTrace[k].idx),
                                              NextStart(TOCTrace[k].idx))
        /\ ~NextSameFile(TOCTrace[k].idx)
              => TOCTrace[k].segment = FromTo(EntryContent(TOCTrace[k].idx),
                                              EntryStart(TOCTrace[k].idx),
                                              Len(EntryContent(TOCTrace[k].idx)))

\* C5, amended: the segment is content[a:b], respectively content[a:], with
\* the white space at its two ends removed.
C5_TrimmedSegment ==
    \A k \in DOMAIN TOCTrace :
        /\ (NextSameFile(TOCTrace[k].idx) /\ EntryStart(TOCTrace[k].idx) < NextStart(TOCTrace[k].idx))
              => TOCTrace[k].segment = TrimSpace(FromTo(EntryContent(TOCTrace[k].idx),
                                                        EntryStart(TOCTrace[k].idx),
                                                        NextStart(TOCTrace[k].idx)))
        /\ ~NextSameFile(TOCTrace[k].idx)
              => TOCTrace[k].segment = TrimSpace(FromTo(EntryContent(TOCTrace[k].idx),
                                                        EntryStart(TOCTrace[k].idx),
                                                        Len(EntryContent(TOCTrace[k].idx))))

\* a chapter cut at the next anchor where the cut left white space to trim,
\* and a chapter whose next entry is in another file
C5_Witness ==
    /\ \E k \in DOMAIN TOCTrace :
          /\ NextSameFile(TOCTrace[k].idx)
          /\ EntryStart(TOCTrace[k].idx) < NextStart(TOCTrace[k].idx)
          /\ TOCTrace[k].segment # FromTo(EntryContent(TOCTrace[k].idx),
                                          EntryStart(TOCTrace[k].idx),
                                          NextStart(TOCTrace[k].idx))
    /\ \E k \in DOMAIN TOCTrace :
          /\ TOCTrace[k].idx + 1 < Len(epEntries)
          /\ ~NextSameFile(TOCTrace[k].idx)

\* the span of entry i is not positive: its start is outside the file, or
\* the next entry of the same file starts at or before it
SpanCollapses(i) ==
    \/ EntryStart(i) < 0
    \/ EntryStart(i) >= Len(EntryContent(i))
    \/ NextSameFile(i) /\ NextStart(i) <= EntryStart(i)

\* C6 as stated: a span that is out of range or not positive gives the whole
\* file as the segment (compared after the trimming of C5).
C6_WholeFile ==
    \A k \in DOMAIN TOCTrace :
        SpanCollapses(TOCTrace[k].idx)
            => TOCTrace[k].segment = TrimSpace(EntryContent(TOCTrace[k].idx))

\* C6, amended: when the next entry of the same file starts at or before
\* this entry, the segment runs from this entry's own start to the end of
\* the file (trimmed); a start outside the file happens only in an empty
\* file, and an entry of an empty file gives no chapter.
C6_StartToEnd ==
    /\ \A k \in DOMAIN TOCTrace :
          /\ Len(EntryContent(TOCTrace[k].idx)) > 0
          /\ EntryStart(TOCTrace[k].idx) < Len(EntryContent(TOCTrace[k].idx))
          /\ (NextSameFile(TOCTrace[k].idx)
              /\ NextStart(TOCTrace[k].idx) <= EntryStart(TOCTrace[k].idx))
                => /\ TOCTrace[k].start = EntryStart(TOCTrace[k].idx)
                   /\ TOCTrace[k].end = Len(EntryContent(TOCTrace[k].idx))
                   /\ TOCTrace[k].segment =
                         TrimSpace(FromTo(EntryContent(TOCTrace[k].idx),
                                          EntryStart(TOCTrace[k].idx),
                                          Len(EntryContent(TOCTrace[k].idx))))
    /\ \A k, l \in DOMAIN TOCTrace : k < l => TOCTrace[k].idx < TOCTrace[l].idx

\* an entry that starts after the next entry of its file and whose segment
\* is not the whole file
C6_Witness ==
    \E k \in DOMAIN TOCTrace :
        /\ NextSameFile(TOCTrace[k].idx)
        /\ NextStart(TOCTrace[k].idx) <= EntryStart(TOCTrace[k].idx)
        /\ EntryStart(TOCTrace[k].idx) > 0
        /\ TOCTrace[k].segment # TrimSpace(EntryContent(TOCTrace[k].idx))
        /\ EntryContent(TOCTrace[k].idx)[EntryStart(TOCTrace[k].idx)] # " "


\* the call that has just returned built its chapters from the spine
FallbackUsed ==
    /\ EpReturnedBook
    /\ \A k \in DOMAIN epTraces[EpLast] : epTraces[EpLast][k].src = "spine"

SpineTrace == IF FallbackUsed THEN epTraces[EpLast] ELSE <<>>

\* the spine items (0-based) that the manifest lists and whose file is there
\* and can be read
SpineReadable(i) ==
    /\ epPkg.ItemRefs[i + 1] \in ManifestIDs(epPkg.Items)
    /\ findFileInZip(epZip, normalizeEPUBPath(epBase,
                        ManifestItem(epPkg.Items, epPkg.ItemRefs[i + 1]).Href)) # <<>>
    /\ findFileInZip(epZip, normalizeEPUBPath(epBase,
                        ManifestItem(epPkg.Items, epPkg.ItemRefs[i + 1]).Href))[1].kind
          # "damaged"

SpineContent(i) ==
    findFileInZip(epZip, normalizeEPUBPath(epBase,
                    ManifestItem(epPkg.Items, epPkg.ItemRefs[i + 1]).Href))[1].data

\* the title the claim gives a file: first h1, else first h2, else title,
\* each if not blank, else "Chapter n"
TitleOrChapterN(htmlContent, n) ==
    IF TitleFrom(htmlContent, LtH(1), EndH(1)) # <<>>
    THEN TitleFrom(htmlContent, LtH(1), EndH(1))
    ELSE IF TitleFrom(htmlContent, LtH(2), EndH(2)) # <<>>
    THEN TitleFrom(htmlContent, LtH(2), EndH(2))
    ELSE IF TitleFrom(htmlContent, LtTitle, EndTitle) # <<>>
    THEN TitleFrom(htmlContent, LtTitle, EndTitle)
    ELSE <<"C", "h", "a", "p", "t", "e", "r", " ">> \o Itoa(n)

\* C7 as stated: the fallback gives one chapter per spine item, in spine
\* order, the k-th titled from its file's h1, h2 or title, else "Chapter k".
C7_ChapterPerSpineItem ==
    FallbackUsed =>
        /\ Len(EpChapters(EpLast)) = Len(epPkg.ItemRefs)
        /\ \A k \in DOMAIN EpChapters(EpLast) :
              /\ SpineReadable(k - 1)
              /\ EpChapters(EpLast)[k].Title = TitleOrChapterN(SpineContent(k - 1), k)

\* C7, amended: the fallback gives one chapter per spine item that the
\* manifest lists and whose file is in the archive, in spine order, and
\* skips the others; the default title is "Chapter N" with N the 1-based
\* position of the item in the spine.
C7_ChapterPerReadableItem ==
    FallbackUsed =>
        /\ Len(SpineTrace) = Len(EpChapters(EpLast))
        /\ Len(SpineTrace) =
              Cardinality({i \in 0..(Len(epPkg.ItemRefs) - 1) : SpineReadable(i)})
        /\ \A k \in DOMAIN SpineTrace :
              /\ SpineTrace[k].idx \in 0..(Len(epPkg.ItemRefs) - 1)
              /\ SpineReadable(SpineTrace[k].idx)
              /\ k > 1 => SpineTrace[k - 1].idx < SpineTrace[k].idx
              /\ EpChapters(EpLast)[k].ID = epPkg.ItemRefs[SpineTrace[k].idx + 1]
              /\ EpChapters(EpLast)[k].Level = 0
              /\ EpChapters(EpLast)[k].Title =
                    TitleOrChapterN(SpineContent(SpineTrace[k].idx), SpineTrace[k].idx + 1)

\* a spine item was skipped and the chapter after it has the default title,
\* numbered by its place in the spine
C7_Witness ==
    /\ FallbackUsed
    /\ Len(SpineTrace) = 1
    /\ Len(epPkg.ItemRefs) = 2
    /\ SpineTrace[1].idx = 1
    /\ EpChapters(EpLast)[1].Title = <<"C", "h", "a", "p", "t", "e", "r", " ", "2">>

\* C8: two parse calls on the same archive return equal results.
C8_SameResultTwice == Len(epResults) = 2 => epResults[1] = epResults[2]

UniqueIDs(chapters) ==
    \A a, b \in DOMAIN chapters : chapters[a].ID = chapters[b].ID => a = b

\* C9: in every Book either parser returns, no two chapters have the same ID.
C9_UniqueChapterIDs ==
    /\ \A c \in DOMAIN epResults :
          epResults[c].book # NoBook => UniqueIDs(EpChapters(c))
    /\ FbReturnedBook => UniqueIDs(FbChapters)

\* the Paragraphs of a chapter, those inside its Epigraphs included
ParagraphsOf(elements) ==
    {elements[k] : k \in {j \in DOMAIN elements : elements[j].type = "Paragraph"}}
    \cup UNION {Range(elements[k].Paragraphs) :
                   k \in {j \in DOMAIN elements : elements[j].type = "Epigraph"}}

BookParagraphs(chapters) == UNION {ParagraphsOf(chapters[k].Elements) : k \in DOMAIN chapters}

EpParagraphs ==
    UNION {BookParagraphs(EpChapters(c)) :
              c \in {d \in DOMAIN epResults : epResults[d].book # NoBook}}

FbParagraphs == IF FbReturnedBook THEN BookParagraphs(FbChapters) ELSE {}

\* C10 as stated: stripping the tags from a Paragraph's markup gives exactly
\* its Text.
C10_StripGivesText ==
    \A para \in EpParagraphs \cup FbParagraphs : stripHTMLTags(para.HTML) = para.Text

\* C10, amended: an EPUB Paragraph's Text is its markup with the tags
\* stripped and the white space at the two ends removed; an FB2 Paragraph's
\* Text is the FB2 text conversion of its markup (tags removed, entities
\* decoded, white space normalised), trimmed.
C10_TextFromMarkup ==
    /\ \A para \in EpParagraphs : para.Text = TrimSpace(stripHTMLTags(para.HTML))
    /\ \A para \in FbParagraphs : para.Text = TrimSpace(fb2XMLToText(para.HTML))

\* an EPUB Paragraph, taken from a p element, whose markup stripped of its
\* tags is not its Text
C10_Witness ==
    \E para \in EpParagraphs :
        /\ stripHTMLTags(para.HTML) # para.Text
        /\ HasPrefixAt(para.HTML, 1, LtP, TRUE)

\* ------------------------------------------------------------------------
\* Properties of the elements and the metadata
\* ------------------------------------------------------------------------

HeadingsOf(elements) ==
    {elements[k] : k \in {j \in DOMAIN elements : elements[j].type = "Heading"}}

BookHeadings(chapters) == UNION {HeadingsOf(chapters[k].Elements) : k \in DOMAIN chapters}

EpHeadings ==
    UNION {BookHeadings(EpChapters(c)) :
              c \in {d \in DOMAIN epResults : epResults[d].book # NoBook}}

FbHeadings == IF FbReturnedBook THEN BookHeadings(FbChapters) ELSE {}

\* C11: every Heading of a returned Book, from either parser, has a Level
\* from 1 to 6.
C11_HeadingLevels ==
    \A h \in EpHeadings \cup FbHeadings : h.Level >= 1 /\ h.Level <= 6

\* an EPUB Book with an h1 and an h2 heading, or an FB2 Book with the heading
\* of a body title and the heading of a section title
C11_Witness ==
    \/ /\ \E h \in EpHeadings : h.Level = 1
       /\ \E h \in EpHeadings : h.Level = 2
    \/ /\ \E h \in FbHeadings : h.Level = 1
       /\ \E h \in FbHeadings : h.Level = 2

\* the sequence number of the decoded document, trimmed, and what the claim
\* calls numeric: an optional sign and decimal digits
SeqNumberTrimmed == TrimSpace(fbDoc.SeqNumber)
SeqNumberNumeric == Unsigned(SeqNumberTrimmed) # <<>> /\ AllDigits(Unsigned(SeqNumberTrimmed))
SeqNumberPositive ==
    /\ SeqNumberNumeric
    /\ SeqNumberTrimmed[1] # "-"
    /\ StripZeros(Unsigned(SeqNumberTrimmed)) # <<"0">>
SeqNumberFits ==
    ~OutOfRange(SeqNumberTrimmed[1] = "-", StripZeros(Unsigned(SeqNumberTrimmed)))
FbSeriesIndex == fbResult.book[1].Metadata.SeriesIndex

\* C12 as stated: blank gives 0, non-numeric gives 1, numeric <= 0 gives 1,
\* numeric > 0 gives that number.
C12_SeriesIndexRule ==
    FbReturnedBook =>
        /\ SeqNumberTrimmed = <<>> => FbSeriesIndex = <<"0">>
        /\ (SeqNumberTrimmed # <<>> /\ ~SeqNumberNumeric) => FbSeriesIndex = <<"1">>
        /\ (SeqNumberNumeric /\ ~SeqNumberPositive) => FbSeriesIndex = <<"1">>
        /\ SeqNumberPositive => FbSeriesIndex = StripZeros(Unsigned(SeqNumberTrimmed))

\* C12, amended: a positive number gives that number only if it fits an int;
\* one that does not fit gives 1, as a non-numeric one does.  The result is
\* never negative and is 0 only for a blank number.
C12_SeriesIndexInRange ==
    FbReturnedBook =>
        /\ SeqNumberTrimmed = <<>> => FbSeriesIndex = <<"0">>
        /\ (SeqNumberTrimmed # <<>> /\ ~SeqNumberNumeric) => FbSeriesIndex = <<"1">>
        /\ (SeqNumberNumeric /\ ~SeqNumberPositive) => FbSeriesIndex = <<"1">>
        /\ (SeqNumberPositive /\ SeqNumberFits)
              => FbSeriesIndex = StripZeros(Unsigned(SeqNumberTrimmed))
        /\ (SeqNumberPositive /\ ~SeqNumberFits) => FbSeriesIndex = <<"1">>
        /\ AllDigits(FbSeriesIndex) /\ FbSeriesIndex # <<>>
        /\ FbSeriesIndex = <<"0">> => SeqNumberTrimmed = <<>>

\* a positive number one above the largest int, parsed to 1
C12_Witness ==
    /\ FbReturnedBook
    /\ SeqNumberPositive
    /\ ~SeqNumberFits
    /\ FbSeriesIndex = <<"1">>

\* the manifest items (by index) that the cover rule of the claim admits
CoverMatches ==
    {k \in 1..Len(epPkg.Items) :
        /\ \/ \E j \in 1..Len(epPkg.Items[k].ID) :
                 HasPrefixAt(epPkg.Items[k].ID, j, CoverWord, TRUE)
           \/ \E j \in 1..Len(epPkg.Items[k].Href) :
                 HasPrefixAt(epPkg.Items[k].Href, j, CoverWord, TRUE)
        /\ epPkg.Items[k].MediaType \in {"image/jpeg", "image/png", "image/jpg"}}

FirstCoverMatch == MinOf(CoverMatches)
FirstCoverFile ==
    findFileInZip(epZip, JoinClean(epBase, epPkg.Items[FirstCoverMatch].Href))
\* the file of the first matching item is in the archive and can be read
FirstCoverReadable == FirstCoverFile # <<>> /\ FirstCoverFile[1].kind # "damaged"
EpCover == epResults[EpLast].book[1].Metadata.Cover
EndsIn(s, suffix) ==
    Len(s) >= Len(suffix) /\ SubSeq(s, Len(s) - Len(suffix) + 1, Len(s)) = suffix

\* C13 as stated: the cover is the first matching manifest item, never a
\* later one, and its type is image/png if the href ends in ".png", else
\* image/jpeg.
C13_FirstCoverItem ==
    EpReturnedBook =>
        IF CoverMatches = {} \/ ~FirstCoverReadable THEN EpCover = NoCover
        ELSE /\ EpCover.CoverData = FirstCoverFile[1].data
             /\ EpCover.CoverType =
                   IF EndsIn(epPkg.Items[FirstCoverMatch].Href, DotPng)
                   THEN "image/png" ELSE "image/jpeg"

\* C13, amended: the ending ".png" is compared without regard to letter
\* case; a first matching item whose file is not in the archive or cannot
\* be read gives no cover, and no later item is tried.
C13_FirstCoverItemFold ==
    EpReturnedBook =>
        IF CoverMatches = {} \/ ~FirstCoverReadable THEN EpCover = NoCover
        ELSE /\ EpCover.CoverData = FirstCoverFile[1].data
             /\ EpCover.CoverType =
                   IF EndsIn(ToLower(epPkg.Items[FirstCoverMatch].Href), DotPng)
                   THEN "image/png" ELSE "image/jpeg"

\* two matching items with different files, the first with an href ending
\* in ".PNG": its bytes are the cover, typed image/png
C13_Witness ==
    /\ EpReturnedBook
    /\ Cardinality(CoverMatches) = 2
    /\ FirstCoverFile # <<>>
    /\ \E k \in CoverMatches :
          /\ k # FirstCoverMatch
          /\ findFileInZip(epZip, JoinClean(epBase, epPkg.Items[k].Href)) # <<>>
          /\ findFileInZip(epZip, JoinClean(epBase, epPkg.Items[k].Href)) # FirstCoverFile
    /\ ~EndsIn(epPkg.Items[FirstCoverMatch].Href, DotPng)
    /\ EpCover = [CoverData |-> FirstCoverFile[1].data, CoverType |-> "image/png"]


\* ---------------------------------------------------------------------------
\* Properties of the sanitizer
\* ---------------------------------------------------------------------------

\* the sanitizer has run in this call
FbSanitized == fbHist.steps # <<>>

RECURSIVE Rewritten(_, _, _, _)
\* data with each character at a position of at replaced by entity, from i on
Rewritten(data, at, entity, i) ==
    IF i > Len(data) THEN <<>>
    ELSE (IF i \in at THEN entity ELSE <<data[i]>>) \o Rewritten(data, at, entity, i + 1)

\* b is what stands between '&' and ';' in a predefined or a numeric entity
IsEntityBody(b) ==
    \/ b \in {<<"a", "m", "p">>, <<"l", "t">>, <<"g", "t">>,
              <<"q", "u", "o", "t">>, <<"a", "p", "o", "s">>}
    \/ Len(b) >= 2 /\ b[1] = "#" /\ \A k \in 2..Len(b) : IsDigit(b[k])
    \/ Len(b) >= 3 /\ b[1] = "#" /\ b[2] = "x" /\ \A k \in 3..Len(b) : IsHexDigit(b[k])

\* the '&' at position i of data begins an entity
BeginsEntity(data, i) ==
    \E e \in (i + 1)..Len(data) : data[e] = ";" /\ IsEntityBody(SubSeq(data, i + 1, e - 1))

\* the positions of the '&' that begin no entity
BareAmpersands(data) == {i \in 1..Len(data) : data[i] = "&" /\ ~BeginsEntity(data, i)}

\* C14: the ampersand repair leaves every '&' that begins &amp; &lt; &gt;
\* &quot; &apos; or a numeric entity (&#digits; or &#xhex;) untouched, rewrites
\* every other '&' to &amp;, and keeps all other bytes unchanged and in order
C14_AmpersandRepair ==
    FbSanitized =>
        fbHist.steps[3] =
            Rewritten(fbHist.steps[2], BareAmpersands(fbHist.steps[2]), AmpEntity, 1)

\* the sanitizer met, in one text, an '&' that begins an entity and one that
\* does not
C14_Witness ==
    /\ FbSanitized
    /\ BareAmpersands(fbHist.steps[2]) # {}
    /\ \E i \in 1..Len(fbHist.steps[2]) :
          fbHist.steps[2][i] = "&" /\ BeginsEntity(fbHist.steps[2], i)
    /\ fbHist.steps[3] # fbHist.steps[2]

\* the positions of the '<' that c says are not followed by a tag start
BareTagOpens(data, starts(_)) ==
    {i \in 1..Len(data) : data[i] = "<" /\ (i = Len(data) \/ ~starts(data[i + 1]))}

\* an ASCII letter or one of / ! ? _
StartsTagASCII(c) == IsLetter(c) \/ c \in {"/", "!", "?", "_"}

\* a letter, ASCII or Cyrillic, or one of / ! ? _
StartsTagAnyLetter(c) == StartsTagASCII(c) \/ c = CYR

ListedCodePage(label) ==
    IF ToLower(label) = <<"w", "i", "n", "d", "o", "w", "s", "-", "1", "2", "5", "1">>
    THEN "windows-1251"
    ELSE IF ToLower(label) = <<"w", "i", "n", "d", "o", "w", "s", "-", "1", "2", "5", "2">>
    THEN "windows-1252"
    ELSE IF ToLower(label) \in {<<"i", "s", "o", "-", "8", "8", "5", "9", "-", "1">>,
                                <<"l", "a", "t", "i", "n", "1">>}
    THEN "iso-8859-1"
    ELSE IF ToLower(label) = <<"k", "o", "i", "8", "-", "r">> THEN "koi8-r"
    ELSE IF ToLower(label) = <<"k", "o", "i", "8", "-", "u">> THEN "koi8-u"
    ELSE IF ToLower(label) \in {<<"u", "t", "f", "-", "1", "6">>,
                                <<"u", "t", "f", "-", "1", "6", "l", "e">>}
    THEN "utf-16le"
    ELSE IF ToLower(label) = <<"u", "t", "f", "-", "1", "6", "b", "e">> THEN "utf-16be"
    ELSE "unlisted"

\* what the claim has the lookup return for a label, iana being the answer
\* of the registry for it
ExpectedReader(label, iana) ==
    IF ListedCodePage(label) # "unlisted" THEN ListedCodePage(label)
    ELSE IF ToLower(label) \in {<<>>, <<"u", "t", "f", "-", "8">>} THEN "pass"
    ELSE IF iana = "enc" THEN "iana"
    ELSE "pass"

\* C16: the charset lookup never fails: for every label, in any letter case,
\* it returns a transform and no error; the listed labels give their code
\* pages, utf-8 and the empty label give pass-through, and so does a label
\* the IANA registry does not know or has no encoding for
C16_CharsetLookup ==
    /\ \A label \in CharsetLabels \cup {<<>>}, iana \in IANAOutcomes :
          /\ charsetReader(label, iana).err = "nil"
          /\ charsetReader(label, iana).reader = ExpectedReader(label, iana)
    /\ \A k \in 1..Len(fbHist.readers) :
          /\ fbHist.readers[k].err = "nil"
          /\ fbHist.readers[k].reader = ExpectedReader(fbData.charset, fbData.iana)

\* a parse has returned a Book of a document whose label the registry does not
\* know, decoded twice through the pass-through the lookup gave
C16_Witness ==
    /\ FbReturnedBook
    /\ ListedCodePage(fbData.charset) = "unlisted"
    /\ fbData.iana = "err"
    /\ Len(fbHist.readers) = 2
    /\ fbHist.readers[2] = [reader |-> "pass", err |-> "nil"]


\* ---------------------------------------------------------------------------
\* Properties of the parser registry
\* ---------------------------------------------------------------------------

\* goroutine t is inside Register's access to the map
RgWriting(t) == rgCalls[t].pc \in {"write", "Unlock"}

\* goroutine t is inside GetParser's or RegisteredFormats' access to the map
RgReading(t) == rgCalls[t].pc \in {"read", "range", "RUnlock"}

\* GetParser of goroutine t has its answer
RgAnswered(t) == rgCalls[t].op = "GetParser" /\ rgCalls[t].pc \in {"RUnlock", "idle"}

\* the parsers registered under the key of t's call by the write numbered
\* floor or by a later one
RgRegisteredSince(t) ==
    {rgHist.writes[ToLower(rgCalls[t].format)][j] :
        j \in rgCalls[t].floor..Len(rgHist.writes[ToLower(rgCalls[t].format)])}

\* C17: under any interleaving of Register, GetParser and RegisteredFormats
\* calls a Register never overlaps another access to the format map, and a
\* GetParser(f) that starts after Register(f, p) has returned yields p or a
\* parser registered later under the same case-insensitive name, never a
\* not-registered error
C17_RegistryThreadSafe ==
    /\ \A t \in DOMAIN rgCalls :
          RgWriting(t) =>
              \A u \in DOMAIN rgCalls \ {t} : ~RgWriting(u) /\ ~RgReading(u)
    /\ \A t \in DOMAIN rgCalls :
          RgAnswered(t) /\ rgCalls[t].floor > 0 =>
              /\ rgCalls[t].result.err = "nil"
              /\ rgCalls[t].result.parser \in RgRegisteredSince(t)

\* a GetParser that started after a Register of its format had returned has
\* answered with a parser another goroutine registered later, under a name in
\* another letter case
C17_Witness ==
    \E t \in DOMAIN rgCalls :
        /\ RgAnswered(t)
        /\ rgCalls[t].floor > 0
        /\ rgCalls[t].result.parser # rgHist.writes[ToLower(rgCalls[t].format)][rgCalls[t].floor]
        /\ rgCalls[t].format # ToLower(rgCalls[t].format)
        /\ rgCalls[t].result.parser[1] # t


\* ---------------------------------------------------------------------------
\* Properties of the extractor registrations
\* ---------------------------------------------------------------------------

\* goroutine t is about to read the function variable that goroutine u is
\* about to assign
ExRacing(t, u) ==
    /\ exCalls[t].pc \in {"check", "call"}
    /\ exCalls[u].pc = "set"
    /\ exCalls[u].format = exCalls[t].format
    /\ exCalls[u].slot = exCalls[t].slot

\* C18: under any interleaving of registrations of extraction functions with
\* Extract* calls, no registration state is written and read concurrently
\* without synchronization, and no Extract* call observes a partially applied
\* registration (some of a format's six functions set, others still unset)
C18_ExtractorsSafe ==
    /\ \A t \in DOMAIN exCalls :
          exCalls[t].pc \in {"write", "Unlock"} =>
              \A u \in DOMAIN exCalls \ {t} :
                  exCalls[u].pc \notin {"write", "Unlock", "read", "RUnlock"}
    /\ \A t \in DOMAIN exCalls, u \in DOMAIN exCalls : ~ExRacing(t, u)
    /\ \A t \in DOMAIN exCalls : ~exCalls[t].partial


\* ------------------------------------------------------------------------
\* Properties of the error paths and of the handles
\* ------------------------------------------------------------------------

\* a call's result is a Book with no error, or no Book with one error
BookOrError(r) ==
    \/ r.book # NoBook /\ r.err = NoError
    \/ r.book = NoBook /\ r.err # NoError

FbParseReturned == fbPc \in {"done", "unread"}

\* the entries of the archive that cannot be opened or read
DamagedNames == {epZip[k].Name : k \in {j \in DOMAIN epZip : epZip[j].kind = "damaged"}}

\* C19: every parse call returns exactly one of a Book with no error or no
\* Book with one error; an EPUB whose container and package file are read
\* yields a Book whatever its TOC candidates, chapter files and cover file
\* are (missing, unopenable or unreadable), with no chapter taken from an
\* unreadable spine item and no cover from an unreadable cover file; and an
\* FB2 document with any series number, malformed or not, yields a Book.
C19_NoAbortOnRecoverable ==
    /\ FbParseReturned => BookOrError(fbResult)
    /\ (FbDone /\ fbInput \in SeriesDocs) => fbResult.book # NoBook
    /\ EpReturned =>
          /\ \A c \in DOMAIN epResults :
                /\ BookOrError(epResults[c])
                /\ (epResults[c].book # NoBook) <=> (OpenError(epZip) = NoError)
          /\ EpReturnedBook =>
                /\ (CoverMatches = {} \/ ~FirstCoverReadable) => EpCover = NoCover
                /\ FallbackUsed =>
                      \A k \in DOMAIN SpineTrace : SpineReadable(SpineTrace[k].idx)

\* a Book is returned although the NCX, the nav file, both chapter files and
\* the cover file cannot be read
C19_Witness ==
    /\ EpReturnedBook
    /\ epResults[EpLast].err = NoError
    /\ {NameNCX, NameNav, NameC1, NameC2, NameCoverPng} \subseteq DamagedNames
    /\ Len(epPkg.ItemRefs) = 2
    /\ CoverMatches # {}
    /\ EpCover = NoCover
    /\ EpChapters(EpLast) = <<>>


\* the handles opened in log and not closed in it
StillOpen(log) ==
    {log[k].name : k \in {j \in DOMAIN log :
        Cardinality({i \in DOMAIN log : log[i] = OpenEvent(log[j].name)})
            > Cardinality({i \in DOMAIN log : log[i] = CloseEvent(log[j].name)})}}

\* no handle is closed before it is opened
ClosedAfterOpen(log) ==
    \A k \in DOMAIN log :
        log[k].op = "close" => \E j \in 1..(k - 1) : log[j] = OpenEvent(log[k].name)

EpCallReturned == epPc \in {"returned", "extracted"}

\* C20: when a parse call or a fast-extraction call has returned, with a
\* result or with an error, every archive, file and entry handle it opened
\* has been closed and no deferred Close is left to run.
C20_HandlesReleased ==
    /\ EpCallReturned =>
          /\ StillOpen(epIO.log) = {}
          /\ ClosedAfterOpen(epIO.log)
          /\ epIO.deferred = <<>>
    /\ FbParseReturned =>
          /\ StillOpen(fbHist.log) = {}
          /\ ClosedAfterOpen(fbHist.log)
          /\ fbHist.deferred = <<>>

\* a parse has returned after io.ReadAll failed on a chapter file it had
\* opened; the archive was the first handle opened and the last closed
C20_Witness ==
    /\ EpReturned
    /\ \E k \in DOMAIN epZip :
          /\ ReadFails(epZip[k])
          /\ epZip[k].Name = NameC1
          /\ \E j \in DOMAIN epIO.log : epIO.log[j] = OpenEvent(NameC1)
    /\ epIO.log[1] = OpenEvent(NameArchive)
    /\ epIO.log[Len(epIO.log)] = CloseEvent(NameArchive)
    /\ Len(epIO.log) >= 8


\* ------------------------------------------------------------------------
\* Properties of the metadata
\* ------------------------------------------------------------------------

\* a letter of the Latin or of the Cyrillic alphabet
IsAnyLetter(c) == IsLetter(c) \/ c = CYR

TwoLetterCode(s) == Len(s) = 2 /\ IsAnyLetter(s[1]) /\ IsAnyLetter(s[2])

\* C21: in every Book returned by either parser Metadata.Language is empty
\* or a code of two letters.
C21_LanguageTwoLetters ==
    /\ FbReturnedBook =>
          \/ fbResult.book[1].Metadata.Language = <<>>
          \/ TwoLetterCode(fbResult.book[1].Metadata.Language)
    /\ EpReturnedBook =>
          \/ epResults[EpLast].book[1].Metadata.Language = <<>>
          \/ TwoLetterCode(epResults[EpLast].book[1].Metadata.Language)


\* ------------------------------------------------------------------------
\* Properties of the counts
\* ------------------------------------------------------------------------

RECURSIVE SumOf(_)
\* the sum of a sequence of numbers
SumOf(ns) == IF ns = <<>> THEN 0 ELSE SumOf(SubSeq(ns, 1, Len(ns) - 1)) + ns[Len(ns)]

RECURSIVE Flat(_)
\* the concatenation of a sequence of sequences
Flat(ss) == IF ss = <<>> THEN <<>> ELSE Head(ss) \o Flat(Tail(ss))

FbCounted == fbHist.counts # NoCounts
CountedChapters == fbResult.book[1].Content
\* the Paragraph a caller makes of the text of a paragraph of an epigraph
AsElement(p) == [type |-> "Paragraph", Text |-> p.Text, HTML |-> p.HTML]

\* C22: the counts of an Epigraph are the sums of the counts of its
\* Paragraphs, 0 if it has none, and the totals of a Book are the sums of
\* the counts of all elements of all chapters.
C22_CountsAreSums ==
    FbCounted =>
        /\ \A c \in DOMAIN CountedChapters : \A e \in DOMAIN CountedChapters[c].Elements :
              CountedChapters[c].Elements[e].type = "Epigraph" =>
                 /\ fbHist.counts.elems[c][e].chars =
                       SumOf([k \in DOMAIN CountedChapters[c].Elements[e].Paragraphs |->
                           CharCount(AsElement(CountedChapters[c].Elements[e].Paragraphs[k]))])
                 /\ fbHist.counts.elems[c][e].words =
                       SumOf([k \in DOMAIN CountedChapters[c].Elements[e].Paragraphs |->
                           WordCount(AsElement(CountedChapters[c].Elements[e].Paragraphs[k]))])
                 /\ CountedChapters[c].Elements[e].Paragraphs = <<>> =>
                       /\ fbHist.counts.elems[c][e].chars = 0
                       /\ fbHist.counts.elems[c][e].words = 0
        /\ fbHist.counts.chars = SumOf([k \in DOMAIN Flat(fbHist.counts.elems) |->
                                           Flat(fbHist.counts.elems)[k].chars])
        /\ fbHist.counts.words = SumOf([k \in DOMAIN Flat(fbHist.counts.elems) |->
                                           Flat(fbHist.counts.elems)[k].words])

\* a Book of two chapters is counted: it holds an Epigraph with no Paragraph
\* and one with two Paragraphs of two words each
C22_Witness ==
    /\ FbCounted
    /\ fbPc = "built"
    /\ Len(CountedChapters) = 2
    /\ CountedChapters[1].Elements = <<EpigraphNone, EpigraphTwo>>
    /\ fbHist.counts.elems[1][2] = [chars |-> 11, words |-> 5]
    /\ fbHist.counts.chars > 11


\* ------------------------------------------------------------------------
\* Properties of concurrent parse calls
\* ------------------------------------------------------------------------

\* the chapters the call's input gives when the call runs alone
AloneResult(in) ==
    IF in.kind = "fb2" THEN extractContentFB2(CcParser, in.fb2).chapters
    ELSE extractChaptersFromTOC(in.zr, in.entries).chapters

\* C23: no parse call writes a variable that another parse call reads or
\* writes (the chapter counter, the file cache and the chapters are private
\* to a call; the fields of the Parser are only read), and each call returns
\* what it returns when it runs alone.
C23_NoSharedMutableState ==
    /\ \A a, b \in ccLog :
          (a.by # b.by /\ a.loc = b.loc) => (a.kind = "r" /\ b.kind = "r")
    /\ \A t \in ParseCalls :
          ccCalls[t].pc = "returned" => ccCalls[t].result = AloneResult(ccCalls[t].input)

\* call 2 has returned two chapters of an FB2 document while call 1, on the
\* same Parser, is in the middle of its walk with one chapter emitted; both
\* have read the Parser's TOCMaxDepth
C23_Witness ==
    /\ ccCalls[1].pc = "walk"
    /\ ccCalls[1].work # <<>>
    /\ ccCalls[1].input.kind = "fb2"
    /\ ccMem[ChapterNumAt(1)] = 2
    /\ ccCalls[2].pc = "returned"
    /\ ccCalls[2].input.kind = "fb2"
    /\ Len(ccCalls[2].result) = 2
    /\ ccCalls[2].result[2].ID = SprintfID("section-", 2)
    /\ \A t \in ParseCalls :
          [by |-> t, loc |-> FieldOf("TOCMaxDepth"), kind |-> "r"] \in ccLog


\* ------------------------------------------------------------------------
\* Properties of the elements of an EPUB chapter
\* ------------------------------------------------------------------------

\* the matches whose text is not blank, in scan order
NonBlank(matches) ==
    SelectSeq(matches, LAMBDA m : TrimSpace(stripHTMLTags(m.inner)) # <<>>)

TextsOf(matches) == [k \in DOMAIN matches |-> TrimSpace(stripHTMLTags(matches[k].inner))]

\* the non-blank headings of one level and the non-blank paragraphs of a body
HeadingMatches(body, level) == NonBlank(FindBlocks(body, 1, LtH(level), EndH(level)))
ParagraphMatches(body) == NonBlank(FindBlocks(body, 1, LtP, EndP))

ElementTexts(elements) == [k \in DOMAIN elements |-> elements[k].Text]

\* the element list of a segment is as C24 says; body is the segment
\* without its head, script and style blocks
ElementsAsClaimed(body, elements) ==
    IF (\E level \in 1..6 : HeadingMatches(body, level) # <<>>)
       \/ ParagraphMatches(body) # <<>>
    THEN /\ \A level \in 1..6 :
               ElementTexts(SelectSeq(elements,
                       LAMBDA e : e.type = "Heading" /\ e.Level = level))
                   = TextsOf(HeadingMatches(body, level))
         /\ ElementTexts(SelectSeq(elements, LAMBDA e : e.type = "Paragraph"))
               = TextsOf(ParagraphMatches(body))
         /\ \A k \in DOMAIN elements :
               /\ elements[k].type \in {"Heading", "Paragraph"}
               /\ elements[k].type = "Heading" => elements[k].Level \in 1..6
         /\ \A j, k \in DOMAIN elements :
               j < k =>
                  /\ elements[k].type = "Heading" => elements[j].type = "Heading"
                  /\ (elements[j].type = "Heading" /\ elements[k].type = "Heading")
                        => elements[j].Level <= elements[k].Level
    ELSE IF TrimSpace(stripHTMLTags(body)) # <<>>
    THEN elements = <<[type |-> "Paragraph",
                      Text |-> TrimSpace(stripHTMLTags(body)),
                      HTML |-> body]>>
    ELSE elements = <<>>

\* C24: the elements of every chapter of an EPUB Book are the non-blank h1
\* headings of its segment in scan order, then those of h2 and so on to h6,
\* then the non-blank paragraphs in scan order, so every Heading precedes
\* every Paragraph and heading levels do not decrease; the whole segment is
\* one Paragraph only when there is no such heading and no such paragraph.
C24_HeadingsThenParagraphs ==
    EpReturnedBook =>
        \A k \in DOMAIN EpChapters(EpLast) :
            ElementsAsClaimed(WithoutHead(epTraces[EpLast][k].segment),
                              EpChapters(EpLast)[k].Elements)

\* a chapter whose segment has an h2 before an h1, with the h1 heading first
\* among its elements; and a chapter with a heading followed by a paragraph
C24_Witness ==
    /\ EpReturnedBook
    /\ \E k \in DOMAIN EpChapters(EpLast) :
          /\ Len(EpChapters(EpLast)[k].Elements) >= 2
          /\ EpChapters(EpLast)[k].Elements[1].type = "Heading"
          /\ EpChapters(EpLast)[k].Elements[1].Level = 1
          /\ EpChapters(EpLast)[k].Elements[2].type = "Heading"
          /\ EpChapters(EpLast)[k].Elements[2].Level = 2
          /\ IndexOfLit(epTraces[EpLast][k].segment, LtH(2), 1, TRUE)
                < IndexOfLit(epTraces[EpLast][k].segment, LtH(1), 1, TRUE)


\* ------------------------------------------------------------------------
\* Properties of the FB2 chapter counter
\* ------------------------------------------------------------------------

ChapterWord == <<"C", "h", "a", "p", "t", "e", "r", " ">>
\* the prefixes of the IDs, each kept as one token
BodyTitleDash == <<"body-title-">>
SectionDash == <<"section-">>

\* C25: the k-th chapter of an FB2 Book carries the number k in its ID, be
\* it the chapter of a body title or of a section, in whichever body; and
\* a section without a title that is emitted as the k-th chapter is titled
\* "Chapter k".
C25_SingleCounter ==
    FbReturnedBook =>
        \A k \in DOMAIN FbChapters :
            /\ FbChapters[k].ID =
                  (IF fbTrace[k].sec = 0 THEN BodyTitleDash ELSE SectionDash) \o Itoa(k)
            /\ (fbTrace[k].sec # 0 /\ fb2XMLToText(fbDoc.secs[fbTrace[k].sec].Title) = <<>>)
                  => FbChapters[k].Title = ChapterWord \o Itoa(k)

\* the first chapter is that of a body title, and the third chapter is an
\* untitled section of the second body, titled "Chapter 3"
C25_Witness ==
    /\ FbReturnedBook
    /\ Len(FbChapters) >= 3
    /\ fbTrace[1].sec = 0
    /\ fbTrace[3].sec # 0
    /\ fbTrace[3].body = 2
    /\ FbChapters[3].Title = <<"C", "h", "a", "p", "t", "e", "r", " ", "3">>
    /\ FbChapters[3].ID = <<"section-", "3">>


\* ------------------------------------------------------------------------
\* Properties of the retry
\* ------------------------------------------------------------------------

\* the first decode failed and the decode of the sanitized data succeeded
FbRetried == FbReturnedBook /\ fbHist.first = "fail" /\ fbHist.second = "ok"

\* C26: after a failed first decode and a successful retry the Book holds
\* exactly what the second decode produced: the chapters of the document
\* that the sanitized data decodes to, none left over from the first
\* attempt and none twice.
C26_RetryResultIsSecondDecode ==
    FbRetried =>
        fbResult.book[1].Content
            = extractContentFB2(fbCfg, DecodeInto(ZeroDoc, fbSan)).chapters


\* ------------------------------------------------------------------------
\* Properties of the sanitizer as a function
\* ------------------------------------------------------------------------

\* the sanitizer has been applied to the input and to its own output
SanTwice == fbPc = "sanitize2"

\* valid UTF-8, no XML-illegal character, every '&' begins a recognized
\* entity, every '<' is followed by a character that starts a tag
Clean(data, starts(_)) ==
    /\ \A k \in 1..Len(data) : data[k] \notin {HIBYTE, CTL}
    /\ BareAmpersands(data) = {}
    /\ BareTagOpens(data, starts) = {}

\* C27 as stated: sanitize(sanitize(x)) = sanitize(x); the output is valid
\* UTF-8 with no XML-illegal character, no '&' that begins no recognized
\* entity and no '<' that is not followed by a letter, '/', '!', '?' or '_';
\* and every such input is returned unchanged
C27_Idempotent ==
    SanTwice =>
        /\ fbHist.again = fbSan.run
        /\ Clean(fbSan.run, StartsTagAnyLetter)
        /\ Clean(fbData.run, StartsTagAnyLetter) => fbSan.run = fbData.run

\* C27 amended: the same with "letter" read as an ASCII letter a-z, A-Z
C27_IdempotentASCII ==
    SanTwice =>
        /\ fbHist.again = fbSan.run
        /\ Clean(fbSan.run, StartsTagASCII)
        /\ Clean(fbData.run, StartsTagASCII) => fbSan.run = fbData.run

\* a '<' before a digit and a bare '&' were rewritten by the first
\* application and the second application changed nothing
C27_Witness ==
    /\ SanTwice
    /\ fbData.run = <<"&", "<", "3">>
    /\ fbSan.run = AmpEntity \o LtEntity \o <<"3">>
    /\ fbHist.again = fbSan.run


\* ------------------------------------------------------------------------
\* Properties of sections that emit no chapter
\* ------------------------------------------------------------------------

RECURSIVE Below(_, _, _)
\* section a lies in the subtree under section id
Below(secs, a, id) ==
    /\ ParentOf(secs, a) # 0
    /\ (ParentOf(secs, a) = id \/ Below(secs, ParentOf(secs, a), id))

\* C28: whenever a visited section (depth <= D, in a body that is not
\* skipped) gives no chapter of its own, at least one section of its
\* subtree gives a chapter.
C28_SubtreeNeverAbsent ==
    FbReturnedBook =>
        \A b \in DOMAIN fbDoc.Bodies : \A id \in SectionsOfBody(b) :
            (/\ BodyProcessed(b)
             /\ SectionDepth(fbDoc.secs, id) <= fbCfg.TOCMaxDepth
             /\ ~Emitted(b, id))
            => \E a \in SectionsOfBody(b) : Below(fbDoc.secs, a, id) /\ Emitted(b, a)


\* ------------------------------------------------------------------------
\* Properties of the metadata-only entry point
\* ------------------------------------------------------------------------

\* ExtractMetadataOnly has read the file that Parse was given
FbMetadataOnlyRead ==
    fbHist.fast.err \notin {"pending", "failed to open file", "failed to read FB2"}

\* C29: on every input on which the full parse succeeds, the metadata-only
\* entry point succeeds as well and returns the Metadata of the Book that the
\* full parse returned, ZIP-wrapped input and input that decodes only after
\* sanitization included.
C29_MetadataOnlyAgrees ==
    (FbReturnedBook /\ FbMetadataOnlyRead) =>
        /\ fbHist.fast.err = NoError
        /\ fbHist.fast.metadata = <<fbResult.book[1].Metadata>>


\* ------------------------------------------------------------------------
\* Properties of the choice between table of contents and spine
\* ------------------------------------------------------------------------

\* the segment of entry i (0-based) of the table of contents: from its start
\* to the next entry's start if that is in the same file and after it, else
\* to the end of the file, without the white space at its ends
EntrySegment(i) ==
    TrimSpace(FromTo(EntryContent(i),
                     IF EntryStart(i) < 0 \/ EntryStart(i) >= Len(EntryContent(i))
                     THEN 0 ELSE EntryStart(i),
                     IF NextSameFile(i) /\ NextStart(i) > EntryStart(i)
                     THEN NextStart(i) ELSE Len(EntryContent(i))))

\* entry i gives no chapter: no path, a blank title, a target file that is
\* not in the archive or cannot be read, or a blank segment
EntryDropped(i) ==
    \/ epEntries[i + 1].Path = <<>>
    \/ TrimSpace(epEntries[i + 1].Title) = <<>>
    \/ findFileInZip(epZip, epEntries[i + 1].Path) = <<>>
    \/ findFileInZip(epZip, epEntries[i + 1].Path)[1].kind = "damaged"
    \/ EntrySegment(i) = <<>>

\* the entries (0-based) of the table of contents that give a chapter
TOCProduced == {i \in 0..(Len(epEntries) - 1) : ~EntryDropped(i)}

\* C30: content extraction goes on to the spine exactly when the table of
\* contents gives no chapter, be it that no candidate yielded an entry or
\* that every entry was dropped; and when the table of contents gives a
\* chapter, the Book holds the chapters of the entries that were not
\* dropped, in entry order, and no chapter of the spine.
C30_FallbackIffNoTOCChapter ==
    /\ epPc = "spine" => TOCProduced = {}
    /\ EpReturnedBook =>
          /\ epIO.spine <=> TOCProduced = {}
          /\ IF TOCProduced = {}
             THEN \A k \in DOMAIN epTraces[EpLast] : epTraces[EpLast][k].src = "spine"
             ELSE /\ Len(EpChapters(EpLast)) = Cardinality(TOCProduced)
                  /\ \A k \in DOMAIN epTraces[EpLast] :
                        /\ epTraces[EpLast][k].src = "toc"
                        /\ epTraces[EpLast][k].idx \in TOCProduced
                        /\ EpChapters(EpLast)[k].ID
                              = SprintfID("toc-", epTraces[EpLast][k].idx + 1)
                        /\ k > 1 => epTraces[EpLast][k - 1].idx < epTraces[EpLast][k].idx

\* a table of contents with entries, every one of them dropped, and a Book
\* whose chapters come from the spine
C30_Witness ==
    /\ EpReturnedBook
    /\ Len(epEntries) > 0
    /\ TOCProduced = {}
    /\ epIO.spine
    /\ Len(EpChapters(EpLast)) > 0
    /\ \A k \in DOMAIN epTraces[EpLast] : epTraces[EpLast][k].src = "spine"

=============================================================================
